---- MODULE Spec2Model ----
(***************************************************************************)
(* Model of the solver-backend layer of ampl/mp:                           *)
(*   - mp::BasicBackend<Impl>   (include/mp/convert/backend.h)             *)
(*   - mp::GurobiBackend        (solvers/gurobidirect/gurobibackend.cc)    *)
(*   - MIPInstanceBackend       (test/converter-mip-test.h)                *)
(* MP_DISPATCH is static (CRTP) dispatch: a handler that Impl does not     *)
(* override is the BasicBackend one.  Handlers are operators over the      *)
(* implementation b, the element and the outcome of the native calls; they *)
(* return the effect of the call, which the actions apply to the state.    *)
(***************************************************************************)
EXTENDS Integers, Sequences, FiniteSets, TLC

\* ------------------------------------------------------------------ bounds
MaxElems  == 2      \* elements held by the native model
MaxSolves == 2      \* SolveAndReport calls on one backend
MaxIndex  == 1      \* element indices are 0..MaxIndex

\* --------------------------------------------------------- implementations
Impls == {"BasicBackend", "MIPInstanceBackend", "GurobiBackend"}

\* ------------------------------------------------------------- input sets
\* A linear expression: a sequence of terms coef*var.
LinExprs == { <<[coef |-> 1, var |-> 0]>>,
              <<[coef |-> 3, var |-> 0], [coef |-> 2, var |-> 1]>> }

Indices == 0..MaxIndex

\* Model::Objective: index, nonlinear_expr() != null, p_extra_info() != null
\* (quadratic terms), linear_expr().
Objectives == [i : Indices, nl : BOOLEAN, quad : BOOLEAN, lin : LinExprs]

\* Model::AlgebraicCon: as an objective, plus the bounds lb() and ub().
ConBounds == {"-inf", "0", "+inf"}
AlgebraicCons ==
  { c \in [i : Indices, nl : BOOLEAN, quad : BOOLEAN, lin : LinExprs,
           lb : ConBounds, ub : ConBounds] : c.lb # "+inf" /\ c.ub # "-inf" }

\* Outcome of the native calls a handler makes: 0, none fails; k, the k-th
\* native call of the handler returns a non-zero error code.
FailAt == 0..2

\* ---------------------------------------------------------------- effects
\* What a handler did: how it returned (res: "ok" or the exception type),
\* the exception's what(), the add-methods dispatched in order, the
\* LinearConstraint objects handed to AddConstraint(LinearConstraint), and
\* the elements added to the native model.
Effect(res, what, calls, lcs, dv, dobj, dcon) ==
  [res |-> res, what |-> what, calls |-> calls, lcs |-> lcs,
   dv |-> dv, dobj |-> dobj, dcon |-> dcon]

Returned(calls, lcs, dv, dobj, dcon) == Effect("ok", <<>>, calls, lcs, dv, dobj, dcon)

\* throw MakeUnsupportedError(name): the one argument the message is built
\* from is the name of the handler.
MakeUnsupportedError(name) ==
  Effect("UnsupportedError", <<name>>, <<>>, <<>>, 0, 0, 0)

\* GRB_CALL(call): a non-zero return code e raises
\* std::runtime_error("  Call failed: '<call>' with code <e>").
GRB_CALL_failed(call) ==
  Effect("runtime_error", <<"  Call failed: '", call, "' with code ", "e">>,
         <<>>, <<>>, 0, 0, 0)

RAISE(msg) == Effect("runtime_error", <<msg>>, <<>>, <<>>, 0, 0, 0)

\* The handler `name` was entered and then did eff.
Dispatched(name, eff) == [eff EXCEPT !.calls = <<name>> \o eff.calls]

\* ------------------------------------------------------- LinearExprUnzipper
\* leu.c_ and leu.v_: the coefficients and the variables of the terms, in
\* the order of the expression.
LinearExprUnzipper(lin) ==
  [c |-> [k \in DOMAIN lin |-> lin[k].coef], v |-> [k \in DOMAIN lin |-> lin[k].var]]

LinearConstraint(c, v, lb, ub) == [c |-> c, v |-> v, lb |-> lb, ub |-> ub]

\* ---------------------------------------------------------------- variables
\* BasicBackend::AddVariable throws; MIPInstanceBackend pushes the variable;
\* GurobiBackend calls GRBaddvars under GRB_CALL.
AddVariable(b, failAt) ==
  Dispatched("AddVariable",
    CASE b = "BasicBackend" -> MakeUnsupportedError("BasicBackend::AddVariable")
      [] b = "MIPInstanceBackend" -> Returned(<<>>, <<>>, 1, 0, 0)
      [] b = "GurobiBackend" ->
           IF failAt = 1 THEN GRB_CALL_failed("GRBaddvars")
           ELSE Returned(<<>>, <<>>, 1, 0, 0))

\* --------------------------------------------------------------- objectives
\* GurobiBackend::SetLinearObjective(iobj, lo): the first objective is set
\* through attribute setters whose result is ignored; a further one through
\* GRBsetobjectiven under GRB_CALL.
SetLinearObjective(iobj, failAt) ==
  IF 1 > iobj THEN Returned(<<>>, <<>>, 0, 1, 0)
  ELSE IF failAt = 1 THEN GRB_CALL_failed("GRBsetobjectiven")
  ELSE Returned(<<>>, <<>>, 0, 1, 0)

\* GurobiBackend::SetQuadraticObjective(iobj, qo): the linear part is set
\* first, then GRBaddqpterms under GRB_CALL; a second quadratic objective
\* is refused.
SetQuadraticObjective(iobj, failAt) ==
  IF 1 > iobj
  THEN IF failAt = 1
       THEN [GRB_CALL_failed("GRBaddqpterms") EXCEPT !.dobj = 1]
       ELSE Returned(<<>>, <<>>, 0, 1, 0)
  ELSE RAISE("Multiple quadratic objectives not supported")

\* AddGeneralObjective, were it to ignore the objective instead of throwing.
AddGeneralObjective_ignored(b, o) ==
  Dispatched("AddGeneralObjective", Returned(<<>>, <<>>, 0, 0, 0))

\* BasicBackend::AddGeneralObjective: no backend here overrides it.
AddGeneralObjective(b, o) ==
  Dispatched("AddGeneralObjective",
    MakeUnsupportedError("BasicBackend::AddGeneralObjective"))

AddLinearObjective(b, lo, iobj, failAt) ==
  Dispatched("AddLinearObjective",
    CASE b = "BasicBackend" -> MakeUnsupportedError("BasicBackend::AddLinearObjective")
      [] b = "MIPInstanceBackend" -> Returned(<<>>, <<>>, 0, 1, 0)
      [] b = "GurobiBackend" -> SetLinearObjective(iobj, failAt))

AddQuadraticObjective(b, qo, iobj, failAt) ==
  Dispatched("AddQuadraticObjective",
    CASE b = "GurobiBackend" -> SetQuadraticObjective(iobj, failAt)
      [] OTHER -> MakeUnsupportedError("BasicBackend::AddQuadraticObjective"))

\* AddObjective, were the linear part of a quadratic objective dispatched
\* to AddLinearObjective before the objective goes to AddQuadraticObjective.
AddObjective_twice(b, o, iobj, failAt) ==
  Dispatched("AddObjective",
    IF o.nl
    THEN AddGeneralObjective(b, o)
    ELSE LET leu == LinearExprUnzipper(o.lin)
             lo  == [c |-> leu.c, v |-> leu.v]
             l   == AddLinearObjective(b, lo, iobj, failAt)
             q   == AddQuadraticObjective(b, [lo |-> lo, qt |-> "qt"], iobj, failAt)
         IN IF ~o.quad THEN l
            ELSE IF l.res # "ok" THEN l
            ELSE [q EXCEPT !.calls = l.calls \o q.calls])

\* AddObjective, were MIPInstanceBackend to take a quadratic objective for a
\* linear one.
AddObjective_byBackend(b, o, iobj, failAt) ==
  Dispatched("AddObjective",
    IF o.nl
    THEN AddGeneralObjective(b, o)
    ELSE LET leu == LinearExprUnzipper(o.lin)
             lo  == [c |-> leu.c, v |-> leu.v]
         IN IF ~o.quad \/ b = "MIPInstanceBackend"
            THEN AddLinearObjective(b, lo, iobj, failAt)
            ELSE AddQuadraticObjective(b, [lo |-> lo, qt |-> "qt"], iobj, failAt))

\* BasicBackend::AddObjective(obj); iobj is the number of objectives the
\* native model already holds.
AddObjective(b, o, iobj, failAt) ==
  Dispatched("AddObjective",
    IF o.nl
    THEN AddGeneralObjective(b, o)
    ELSE LET leu == LinearExprUnzipper(o.lin)
             lo  == [c |-> leu.c, v |-> leu.v]
         IN IF ~o.quad
            THEN AddLinearObjective(b, lo, iobj, failAt)
            ELSE AddQuadraticObjective(b, [lo |-> lo, qt |-> "qt"], iobj, failAt))

\* -------------------------------------------------------------- constraints
\* BasicConstraintAdder: the handler of a constraint kind that no class of
\* the backend's hierarchy handles.  It reports the kind and the element.
BasicConstraintAdder_AddConstraint(kind, i) ==
  Dispatched("AddConstraint(" \o kind \o ")",
    Effect("UnsupportedError", <<kind, ToString(i)>>, <<>>, <<>>, 0, 0, 0))

\* AddGeneralConstraint, were its error to name the constraint's index.
AddGeneralConstraint_indexed(b, con) ==
  Dispatched("AddGeneralConstraint",
    Effect("UnsupportedError", <<"BasicBackend::AddGeneralConstraint", ToString(con.i)>>,
           <<>>, <<>>, 0, 0, 0))

\* BasicBackend::AddGeneralConstraint: no backend here overrides it.
AddGeneralConstraint(b, con) ==
  Dispatched("AddGeneralConstraint",
    MakeUnsupportedError("BasicBackend::AddGeneralConstraint"))

\* AddConstraint(const LinearConstraint&): BasicBackend throws;
\* MIPInstanceBackend pushes the row; GurobiBackend calls GRBaddrangeconstr.
AddConstraint_LinearConstraint(b, lc, failAt) ==
  [ Dispatched("AddConstraint(LinearConstraint)",
      CASE b = "BasicBackend" -> MakeUnsupportedError("BasicBackend::AddLinearConstraint")
        [] b = "MIPInstanceBackend" -> Returned(<<>>, <<>>, 0, 0, 1)
        [] b = "GurobiBackend" ->
             IF failAt = 1 THEN GRB_CALL_failed("GRBaddrangeconstr")
             ELSE Returned(<<>>, <<>>, 0, 0, 1))
    EXCEPT !.lcs = <<lc>> ]

\* GurobiBackend::AddConstraint(const QuadraticConstraint&): one GRBaddqconstr
\* for an equality, else one per finite bound, each under GRB_CALL.
GurobiAddQuadraticConstraint(qc, failAt) ==
  LET rows == IF qc.lb = qc.ub THEN 1
              ELSE (IF qc.lb # "-inf" THEN 1 ELSE 0) + (IF qc.ub # "+inf" THEN 1 ELSE 0)
  IN IF failAt >= 1 /\ failAt <= rows
     THEN [GRB_CALL_failed("GRBaddqconstr") EXCEPT !.dcon = failAt - 1]
     ELSE Returned(<<>>, <<>>, 0, 0, rows)

AddConstraint_QuadraticConstraint(b, qc, i, failAt) ==
  IF b = "GurobiBackend"
  THEN Dispatched("AddConstraint(QuadraticConstraint)", GurobiAddQuadraticConstraint(qc, failAt))
  ELSE BasicConstraintAdder_AddConstraint("QuadraticConstraint", i)

\* BasicBackend::AddAlgebraicConstraint(con)
AddAlgebraicConstraint(b, con, failAt) ==
  Dispatched("AddAlgebraicConstraint",
    IF con.nl
    THEN AddGeneralConstraint(b, con)
    ELSE LET leu == LinearExprUnzipper(con.lin)
             lc  == LinearConstraint(leu.c, leu.v, con.lb, con.ub)
         IN IF ~con.quad
            THEN AddConstraint_LinearConstraint(b, lc, failAt)
            ELSE AddConstraint_QuadraticConstraint(b, lc, con.i, failAt))

\* A LinearDefiningConstraint  result = sum of c_i*x_i.
LinearDefiningConstraints == [r : {2}, lin : LinExprs]

\* ldc.to_linear_constraint():  result - sum of c_i*x_i = 0.
to_linear_constraint(ldc) ==
  LET leu == LinearExprUnzipper(ldc.lin)
  IN LinearConstraint([k \in DOMAIN leu.c |-> 0 - leu.c[k]] \o <<1>>,
                      leu.v \o <<ldc.r>>, "0", "0")

\* AddConstraint(ldc), were it to pass on the terms without the result
\* variable.
AddConstraint_LinearDefiningConstraint_terms(b, ldc, failAt) ==
  Dispatched("AddConstraint(LinearDefiningConstraint)",
    AddConstraint_LinearConstraint(b,
      LinearConstraint(LinearExprUnzipper(ldc.lin).c, LinearExprUnzipper(ldc.lin).v,
                       "0", "0"), failAt))

\* BasicBackend::AddConstraint(const LinearDefiningConstraint& ldc)
AddConstraint_LinearDefiningConstraint(b, ldc, failAt) ==
  Dispatched("AddConstraint(LinearDefiningConstraint)",
    AddConstraint_LinearConstraint(b, to_linear_constraint(ldc), failAt))

\* ------------------------------------------------- the element of an add
\* The element handed to an add call, as its accessors show it:
\* nonlinear_expr(), linear_expr(), p_extra_info() with its quadratic terms
\* qt_, and for a constraint lb() and ub().
ExtraInfo(quad) == [null |-> ~quad, qt_ |-> IF quad THEN "qt" ELSE "none"]

Objective(o) ==
  [nonlinear_expr |-> o.nl, linear_expr |-> o.lin, extra_info |-> ExtraInfo(o.quad),
   lb |-> "none", ub |-> "none"]

AlgebraicCon(con) ==
  [nonlinear_expr |-> con.nl, linear_expr |-> con.lin, extra_info |-> ExtraInfo(con.quad),
   lb |-> con.lb, ub |-> con.ub]

\* The objects AddObjective and AddAlgebraicConstraint work on.
Objects(el, leu, form, qt) == [el |-> el, leu |-> leu, form |-> form, qt |-> qt]

\* The add, were qt a reference to the element's quadratic terms
\* (auto& qt = ...->qt_): std::move(qt) empties the terms of the element.
AddElement_qtByReference(el) ==
  IF el.nonlinear_expr
  THEN Objects(el, "none", "none", "none")
  ELSE IF el.extra_info.null
       THEN Objects(el, "moved-from", "made", "none")
       ELSE Objects([el EXCEPT !.extra_info.qt_ = "moved-from"],
                    "moved-from", "moved-from", "moved-from")

\* The objects after the statements of AddObjective or of
\* AddAlgebraicConstraint on the element el: the element is handed on or
\* read; leu copies its linear part and is moved into the form lo or lc; qt
\* is a copy (auto qt) of the element's quadratic terms, moved with the form
\* into the quadratic objective or constraint.
AddElement(el) ==
  IF el.nonlinear_expr
  THEN Objects(el, "none", "none", "none")
  ELSE IF el.extra_info.null
       THEN Objects(el, "moved-from", "made", "none")
       ELSE Objects(el, "moved-from", "moved-from", "moved-from")

\* ------------------------------------------------------ solve status codes
\* mp::sol: the solve codes handed to the sink.
sol_SOLVED      == 0
sol_UNCERTAIN   == 100
sol_INFEASIBLE  == 200
sol_UNBOUNDED   == 300
sol_FAILURE     == 500
sol_INTERRUPTED == 600

\* Values of the native attribute GRB_INT_ATTR_STATUS: those with a case in
\* ConvertSolutionStatus, and some of those without one.
GrbCased   == {"GRB_OPTIMAL", "GRB_INFEASIBLE", "GRB_UNBOUNDED", "GRB_INF_OR_UNBD",
               "GRB_NUMERIC"}
GrbUncased == {"GRB_TIME_LIMIT", "GRB_INTERRUPTED"}
GrbStatuses == GrbCased \cup GrbUncased

\* Results of a status translation.
Translation(code, msg) == [res |-> "ok", set |-> TRUE, code |-> code, msg |-> msg]
TranslationFailed == [res |-> "runtime_error", set |-> FALSE, code |-> 0, msg |-> <<>>]

\* The default branch, were the native code put into the message.
ConvertSolutionStatus_default_echo(optimstatus, stopped, solcount, failAt) ==
  IF stopped THEN Translation(sol_INTERRUPTED, <<"interrupted">>)
  ELSE IF failAt = 2 THEN TranslationFailed
  ELSE IF solcount > 0 THEN Translation(sol_UNCERTAIN, <<"feasible solution">>)
  ELSE Translation(sol_FAILURE + 1, <<"unknown solution status ", optimstatus>>)

\* The default: branch of the switch in ConvertSolutionStatus: the
\* interrupter is asked first, then the solution count is read under GRB_CALL.
ConvertSolutionStatus_default(optimstatus, stopped, solcount, failAt) ==
  IF stopped THEN Translation(sol_INTERRUPTED, <<"interrupted">>)
  ELSE IF failAt = 2 THEN TranslationFailed
  ELSE IF solcount > 0 THEN Translation(sol_UNCERTAIN, <<"feasible solution">>)
  ELSE Translation(sol_FAILURE + 1, <<"unknown solution status">>)

\* The translation, were the interrupter asked before the switch.
ConvertSolutionStatus_stopFirst(optimstatus, stopped, solcount, failAt) ==
  IF failAt = 1 THEN TranslationFailed
  ELSE IF stopped THEN Translation(sol_INTERRUPTED, <<"interrupted">>)
  ELSE CASE optimstatus = "GRB_OPTIMAL" -> Translation(sol_SOLVED, <<"optimal solution">>)
         [] optimstatus = "GRB_INFEASIBLE" ->
              Translation(sol_INFEASIBLE, <<"infeasible problem">>)
         [] optimstatus = "GRB_UNBOUNDED" ->
              Translation(sol_UNBOUNDED, <<"unbounded problem">>)
         [] optimstatus = "GRB_INF_OR_UNBD" ->
              Translation(sol_INFEASIBLE + 1, <<"infeasible or unbounded problem">>)
         [] optimstatus = "GRB_NUMERIC" -> Translation(sol_FAILURE, <<"error">>)
         [] OTHER -> ConvertSolutionStatus_default(optimstatus, stopped, solcount, failAt)

\* The translation, were GRB_INF_OR_UNBD given the code of GRB_INFEASIBLE.
ConvertSolutionStatus_infOrUnbd(optimstatus, stopped, solcount, failAt) ==
  IF failAt = 1 THEN TranslationFailed
  ELSE CASE optimstatus = "GRB_OPTIMAL" -> Translation(sol_SOLVED, <<"optimal solution">>)
         [] optimstatus = "GRB_INFEASIBLE" ->
              Translation(sol_INFEASIBLE, <<"infeasible problem">>)
         [] optimstatus = "GRB_UNBOUNDED" ->
              Translation(sol_UNBOUNDED, <<"unbounded problem">>)
         [] optimstatus = "GRB_INF_OR_UNBD" ->
              Translation(sol_INFEASIBLE, <<"infeasible or unbounded problem">>)
         [] optimstatus = "GRB_NUMERIC" -> Translation(sol_FAILURE, <<"error">>)
         [] OTHER -> ConvertSolutionStatus_default(optimstatus, stopped, solcount, failAt)

\* GurobiBackend::ConvertSolutionStatus(interrupter, solve_code): reads the
\* native status under GRB_CALL, switches on it, returns the status message
\* and assigns solve_code.
ConvertSolutionStatus(optimstatus, stopped, solcount, failAt) ==
  IF failAt = 1 THEN TranslationFailed
  ELSE CASE optimstatus = "GRB_OPTIMAL" -> Translation(sol_SOLVED, <<"optimal solution">>)
         [] optimstatus = "GRB_INFEASIBLE" ->
              Translation(sol_INFEASIBLE, <<"infeasible problem">>)
         [] optimstatus = "GRB_UNBOUNDED" ->
              Translation(sol_UNBOUNDED, <<"unbounded problem">>)
         [] optimstatus = "GRB_INF_OR_UNBD" ->
              Translation(sol_INFEASIBLE + 1, <<"infeasible or unbounded problem">>)
         [] optimstatus = "GRB_NUMERIC" -> Translation(sol_FAILURE, <<"error">>)
         [] OTHER -> ConvertSolutionStatus_default(optimstatus, stopped, solcount, failAt)

\* ------------------------------------------------ native handles (Gurobi)
\* OpenSolver, were the codes of GRBloadenv and GRBnewmodel dropped.
OpenSolver_unchecked(b, failAt) ==
  IF b # "GurobiBackend" THEN [res |-> "ok", env |-> 0, model |-> 0]
  ELSE IF failAt = 1 THEN [res |-> "ok", env |-> 0, model |-> 0]
  ELSE IF failAt = 2 THEN [res |-> "ok", env |-> 1, model |-> 0]
  ELSE [res |-> "ok", env |-> 1, model |-> 1]

\* GurobiBackend::OpenSolver: GRBloadenv then GRBnewmodel, each under
\* GRB_CALL.  Returns how it ended and the handles it acquired.
OpenSolver(b, failAt) ==
  IF b # "GurobiBackend" THEN [res |-> "ok", env |-> 0, model |-> 0]
  ELSE IF failAt = 1 THEN [res |-> "runtime_error", env |-> 0, model |-> 0]
  ELSE IF failAt = 2 THEN [res |-> "runtime_error", env |-> 1, model |-> 0]
  ELSE [res |-> "ok", env |-> 1, model |-> 1]

\* GurobiBackend::CloseSolver: GRBfreemodel(model); GRBfreeenv(env).
CloseSolver(b) ==
  IF b = "GurobiBackend" THEN [env |-> 1, model |-> 1] ELSE [env |-> 0, model |-> 0]

\* -------------------------------------------------------------------- state
VARIABLES
  impl,           \* the Impl the backend object is an instance of
  obj,            \* the backend object: "none", "alive", "ctor_threw", "destroyed";
                  \* "aborted", "undefined" once the process has ended in it
  grbenv,         \* GRBenv handle: [acq, rel] times acquired and released
  grbmodel,       \* GRBmodel handle: [acq, rel]
  phase,          \* phase of the call history (no field of the code holds it)
  prob,           \* the native model: [nvars, nobjs, ncons] and nint, the
                  \* integer variables among nvars
  stop,           \* interrupter.Stop()
  solve_code,     \* BasicBackend::solve_code
  solve_status,   \* BasicBackend::solve_status
  solution,       \* BasicBackend::solution: "empty" or "filled"
  dual_solution,  \* BasicBackend::dual_solution
  nsolve,         \* native solves started (GRBoptimize calls)
  last,           \* the last call on the backend and what it did
  drv,            \* the driver: its position, the variables, objectives and
                  \* constraints it has fed
  rsv,            \* a resolution of a constraint kind in progress
  clog,           \* the last two classifications: [prev, cur]
  stats,          \* BasicBackend::stats: [time, setup_time, solution_time]
  clock,          \* steady_clock: [now], the instants of the phases of the
                  \* last solve and the timing block it printed
  options,        \* Solver::options_: the registered options in the order
                  \* of OptionNameLess
  ocall,          \* the last call on the options and how it ended
  sig,            \* SignalHandler's statics, the disposition of SIGINT and
                  \* the process
  pool,           \* GurobiBackend::iPoolSolution, the native solution count
                  \* and solution number, and the last pool call
  cq,             \* BasicBackend::p_converter_query_object: "null" or "query"
  element,        \* the model element of the last add call, before and after it
  ilog            \* the IlogCPSolver: its options, its optimizer, its last ParseOptions

backendVars == <<impl, obj, grbenv, grbmodel, phase, prob, stop, solve_code,
                 solve_status, solution, dual_solution, nsolve, last>>
\* The state of the solver classes beside the backend.
solverVars == <<sig, pool, cq, element, ilog>>
vars == <<backendVars, drv, rsv, clog, stats, clock, options, ocall, solverVars>>

NoProb == [nvars |-> 0, nobjs |-> 0, ncons |-> 0, nint |-> 0]
NoEffect == Returned(<<>>, <<>>, 0, 0, 0)
NoStruct == [nl |-> FALSE, quad |-> FALSE]
NoArg == [r |-> 0, lin |-> <<>>]
NoNative == [status |-> "none", solcount |-> 0, stopped |-> FALSE, mip |-> FALSE]
NoReport == [code |-> 0, msg |-> <<>>, x |-> "null", y |-> "null", obj |-> "NaN"]

\* A record of a call: the operation, the phase it was made in, its effect,
\* the element's index and structure, the native model before it; for a
\* LinearDefiningConstraint its terms; for a solve, the native status and
\* the stop flag read by the translation, what IsMIP() returned, and the
\* arguments of HandleSolution.
Call(op, eff, idx, st) ==
  [op |-> op, phase |-> phase, eff |-> eff, idx |-> idx, st |-> st, before |-> prob,
   arg |-> NoArg, native |-> NoNative, rep |-> NoReport]

NoEntry == [b |-> "none", elem |-> "none", nl |-> FALSE, quad |-> FALSE, lin |-> <<>>,
            kind |-> "none"]
NoClog == [prev |-> NoEntry, cur |-> NoEntry]
NoDrv == [pc |-> "off", fv |-> 0, fo |-> 0, fc |-> 0]
NoRsv == [kind |-> "none", visited |-> {}, outcome |-> "off"]

\* No problem read yet: num_nonlinear_objs(), num_nonlinear_cons(),
\* num_logical_cons() of an empty problem.
NoProblem == [num_nonlinear_objs |-> 0, num_nonlinear_cons |-> 0, num_logical_cons |-> 0]

\* No optimizer created yet: optimizer_ is empty.
NoOptimizer == [kind |-> "none", params |-> {}]

\* No IlogCPSolver constructed yet.
NoIlog ==
  [alive |-> FALSE, gotopttype_ |-> FALSE, debug_ |-> FALSE, has_errors_ |-> FALSE,
   options_ |-> [DEBUGEXPR |-> 0, OPTIMIZER |-> "AUTO", TIMING |-> 0, USENUMBEROF |-> 1],
   optimizer_ |-> NoOptimizer, p |-> NoProblem, read |-> FALSE,
   argv |-> <<>>, ret |-> "none", trace |-> <<>>]

\* No add call made yet.
NoElem == [op |-> "none", before |-> Objective([nl |-> FALSE, quad |-> FALSE, lin |-> <<>>]),
           after |-> Objective([nl |-> FALSE, quad |-> FALSE, lin |-> <<>>])]

\* Stats stats: time is value-initialised to the clock's epoch; setup_time
\* and solution_time are assigned by PrepareSolve and WrapupSolve before
\* PrintTimingInfo reads them.
NoStats == [time |-> 0, setup_time |-> 0, solution_time |-> 0]
\* The clock before any call: from, begun, ended, reported are the instants
\* of the last sample before a solve, of the start and the end of its native
\* solve and of the end of its reporting; init and mark the instants of the
\* last InitProblemModificationPhase and of the last phase boundary at which
\* the backend read the clock.
NoClock == [now |-> 1, init |-> 0, mark |-> 0, from |-> 0, begun |-> 0, ended |-> 0,
            reported |-> 0, printed |-> <<>>]
NoOptions == <<>>
NoOption == [name |-> <<>>, type |-> "none", value |-> "none"]
NoOcall == [op |-> "none", name |-> <<>>, type |-> "none", value |-> "none",
            res |-> "ok", first |-> NoOption]
\* The statics of SignalHandler before any object: stop_ = 1, interruptible_
\* null; SIGINT has its default disposition.  alive, lifetimes, sigints,
\* interrupts, by, seen and early follow the objects, the SIGINTs delivered
\* in the life of the last one, its Interrupt() calls, which SIGINT made the
\* last of them, the stop_ it was entered with and whether one was made
\* without a live object; out counts the break messages written and wrote
\* tells how the last write of one ended.
NoSig == [stop_ |-> 1, interruptible_ |-> "null", disposition |-> "SIG_DFL",
          proc |-> "running", out |-> 0, alive |-> FALSE, lifetimes |-> 0,
          sigints |-> 0, interrupts |-> 0, wrote |-> "none", by |-> 0, seen |-> 1,
          early |-> FALSE]
\* No pool iteration is open: iPoolSolution = -2.  k counts the calls of
\* SelectNextPoolSolution since StartPoolSolutions, ret is what the last
\* one returned, open and legal follow the calls: an iteration is open,
\* and no call was made that its assert forbids.
NoPool == [iPoolSolution |-> -2, solcount |-> 0, solnumber |-> 0, k |-> 0,
           op |-> "none", ret |-> "none", open |-> FALSE, legal |-> TRUE,
           proc |-> "running"]

InitBackend ==
  /\ impl \in Impls
  /\ obj = "none"
  /\ grbenv = [acq |-> 0, rel |-> 0]
  /\ grbmodel = [acq |-> 0, rel |-> 0]
  /\ phase = "Created"
  /\ prob = NoProb
  /\ stop = FALSE
  /\ solve_code = 0
  /\ solve_status = <<>>
  /\ solution = "empty"
  /\ dual_solution = "empty"
  /\ nsolve = 0
  /\ last = [op |-> "none", phase |-> "Created", eff |-> NoEffect, idx |-> 0,
             st |-> NoStruct, before |-> NoProb,
             arg |-> NoArg, native |-> NoNative, rep |-> NoReport]

\* Everything but the converter's query object.
InitButQuery ==
  /\ InitBackend
  /\ drv = NoDrv
  /\ rsv = NoRsv
  /\ clog = NoClog
  /\ stats = NoStats
  /\ clock = NoClock
  /\ options = NoOptions
  /\ ocall = NoOcall
  /\ sig = NoSig
  /\ pool = NoPool
  /\ element = NoElem
  /\ ilog = NoIlog

\* The backend of a converter: the converter that owns the backend has
\* provided its query object (ProvideConverterQueryObject).
Init ==
  /\ InitButQuery
  /\ cq = "query"

Size(p) == p.nvars + p.nobjs + p.ncons

\* The native model after a handler's effect.
Applied(eff) ==
  [nvars |-> prob.nvars + eff.dv, nobjs |-> prob.nobjs + eff.dobj,
   ncons |-> prob.ncons + eff.dcon, nint |-> prob.nint]

\* ------------------------------------------------------------ construction
\* GurobiBackend::GurobiBackend() { OpenSolver(); }  An exception leaves the
\* constructor, so the object never exists and its destructor never runs.
DoConstruct ==
  /\ obj = "none"
  /\ \E failAt \in FailAt :
       LET o == OpenSolver(impl, failAt)
       IN /\ (impl # "GurobiBackend" => failAt = 0)
          /\ obj' = IF o.res = "ok" THEN "alive" ELSE "ctor_threw"
          /\ grbenv' = [grbenv EXCEPT !.acq = @ + o.env]
          /\ grbmodel' = [grbmodel EXCEPT !.acq = @ + o.model]
          /\ last' = Call("Construct", [NoEffect EXCEPT !.res = o.res], 0, NoStruct)
  /\ UNCHANGED <<impl, phase, prob, stop, solve_code, solve_status, solution,
                 dual_solution, nsolve>>

\* GurobiBackend::~GurobiBackend() { CloseSolver(); }
DoDestroy ==
  /\ obj = "alive"
  /\ obj' = "destroyed"
  /\ grbenv' = [grbenv EXCEPT !.rel = @ + CloseSolver(impl).env]
  /\ grbmodel' = [grbmodel EXCEPT !.rel = @ + CloseSolver(impl).model]
  /\ last' = Call("Destroy", NoEffect, 0, NoStruct)
  /\ UNCHANGED <<impl, phase, prob, stop, solve_code, solve_status, solution,
                 dual_solution, nsolve>>

\* --------------------------------------------------- modification phase
\* InitProblemModificationPhase(): empty in BasicBackend; GurobiBackend
\* samples the clock.
DoInitProblemModificationPhase ==
  /\ obj = "alive"
  /\ phase' = "ModificationOpen"
  /\ last' = Call("InitProblemModificationPhase", NoEffect, 0, NoStruct)
  /\ UNCHANGED <<impl, obj, grbenv, grbmodel, prob, stop, solve_code,
                 solve_status, solution, dual_solution, nsolve>>

\* FinishProblemModificationPhase(): empty in BasicBackend; GurobiBackend
\* exports the model under GRB_CALL when the writeprob option names a file.
FinishProblemModificationPhase(b, exportFile, failAt) ==
  IF b = "GurobiBackend" /\ exportFile /\ failAt = 1
  THEN GRB_CALL_failed("GRBwrite")
  ELSE NoEffect

DoFinishProblemModificationPhase ==
  /\ obj = "alive"
  /\ \E exportFile \in BOOLEAN, failAt \in 0..1 :
       LET eff == FinishProblemModificationPhase(impl, exportFile, failAt)
       IN /\ phase' = IF eff.res = "ok" THEN "ModificationClosed" ELSE phase
          /\ last' = Call("FinishProblemModificationPhase", eff, 0, NoStruct)
  /\ UNCHANGED <<impl, obj, grbenv, grbmodel, prob, stop, solve_code,
                 solve_status, solution, dual_solution, nsolve>>

\* An add call: the handler's effect is applied to the native model.
DoAdd(op, eff, idx, st) ==
  /\ prob' = Applied(eff)
  /\ last' = Call(op, eff, idx, st)
  /\ UNCHANGED <<impl, obj, grbenv, grbmodel, phase, stop, solve_code,
                 solve_status, solution, dual_solution, nsolve>>

\* var.type() of the Variable handed to AddVariable.
VarTypes == {"CONTINUOUS", "INTEGER"}

\* The state after an AddVariable call that did eff with a variable of the
\* given type: a variable that was added keeps its type.
AddedVariable(eff, type) ==
  /\ prob' = [Applied(eff) EXCEPT
                !.nint = @ + (IF type = "INTEGER" THEN eff.dv ELSE 0)]
  /\ last' = Call("AddVariable", eff, 0, NoStruct)
  /\ UNCHANGED <<impl, obj, grbenv, grbmodel, phase, stop, solve_code,
                 solve_status, solution, dual_solution, nsolve>>

\* AddVariable, were it to check the phase of the call history.
DoAddVariable_lifecycle ==
  /\ obj = "alive"
  /\ Size(prob) < MaxElems
  /\ \E failAt \in 0..1, type \in VarTypes :
       AddedVariable(IF phase = "ModificationClosed"
                     THEN Effect("BackendLifecycleViolation", <<>>, <<>>, <<>>, 0, 0, 0)
                     ELSE AddVariable(impl, failAt), type)

\* A call of AddVariable on the backend.
DoAddVariable ==
  /\ obj = "alive"
  /\ Size(prob) < MaxElems
  /\ \E failAt \in 0..1, type \in VarTypes : AddedVariable(AddVariable(impl, failAt), type)

\* The elements of S are offered to AddObjective.
DoAddObjective(S) ==
  /\ obj = "alive"
  /\ Size(prob) < MaxElems
  /\ \E o \in S, failAt \in 0..1 :
       DoAdd("AddObjective", AddObjective(impl, o, prob.nobjs, failAt), o.i,
             [nl |-> o.nl, quad |-> o.quad])

DoAddAlgebraicConstraint(S) ==
  /\ obj = "alive"
  /\ Size(prob) < MaxElems
  /\ \E con \in S, failAt \in FailAt :
       DoAdd("AddAlgebraicConstraint", AddAlgebraicConstraint(impl, con, failAt), con.i,
             [nl |-> con.nl, quad |-> con.quad])

DoAddLinearDefiningConstraint ==
  /\ obj = "alive"
  /\ Size(prob) < MaxElems
  /\ \E ldc \in LinearDefiningConstraints, failAt \in 0..1 :
       LET eff == AddConstraint_LinearDefiningConstraint(impl, ldc, failAt)
       IN /\ prob' = Applied(eff)
          /\ last' = [Call("AddConstraint(LinearDefiningConstraint)", eff, 0, NoStruct)
                      EXCEPT !.arg = ldc]
          /\ UNCHANGED <<impl, obj, grbenv, grbmodel, phase, stop, solve_code,
                         solve_status, solution, dual_solution, nsolve>>

\* --------------------------------------------------------------- interrupt
\* SIGINT: the interrupter's stop flag is set.
DoInterrupt ==
  /\ obj = "alive"
  /\ ~stop
  /\ stop' = TRUE
  /\ UNCHANGED <<impl, obj, grbenv, grbmodel, phase, prob, solve_code,
                 solve_status, solution, dual_solution, nsolve, last>>

\* ------------------------------------------------------------------- solve
\* What a native attribute query made while reporting may fail on.
ReportFailures == {"none", "NumberOfObjectives", "ObjectiveValue", "IsMIP"}

\* The native solve, were it to check the phase of the call history.
DoSolve_lifecycle(optFail) ==
  IF phase # "ModificationClosed"
  THEN Effect("BackendLifecycleViolation", <<>>, <<>>, <<>>, 0, 0, 0)
  ELSE IF optFail THEN GRB_CALL_failed("GRBoptimize") ELSE NoEffect

\* GurobiBackend::SolveAndReportIntermediateResults: GRBoptimize under
\* GRB_CALL.
DoSolve(optFail) ==
  IF optFail THEN GRB_CALL_failed("GRBoptimize") ELSE NoEffect

\* ObtainAndReportSolution, were the message to hold a line of iterations,
\* nodes and objective.
ObtainAndReportSolution_iterations(code, status, isMIP, primalOK, dualOK, rpFail) ==
  LET retrieved == code < sol_INFEASIBLE
      x   == IF retrieved
             THEN (IF primalOK /\ prob.nvars > 0 THEN "filled" ELSE "empty")
             ELSE solution
      hasObj == retrieved /\ rpFail # "NumberOfObjectives" /\ prob.nobjs > 0
      y   == IF isMIP THEN dual_solution
             ELSE (IF dualOK /\ prob.ncons > 0 THEN "filled" ELSE "empty")
      msg == <<"long_name", ": ">> \o status \o <<"\n", "Niterations", " iterations">>
             \o (IF isMIP THEN <<", ", "NodeCount", " nodes">> ELSE <<>>)
             \o (IF hasObj THEN <<", objective ", "ObjectiveValue">> ELSE <<>>)
             \o <<"\n">>
  IN IF retrieved /\ rpFail = "NumberOfObjectives"
     THEN [res |-> "runtime_error", x |-> x, y |-> dual_solution, rep |-> NoReport]
     ELSE IF hasObj /\ rpFail = "ObjectiveValue"
     THEN [res |-> "runtime_error", x |-> x, y |-> dual_solution, rep |-> NoReport]
     ELSE IF rpFail = "IsMIP"
     THEN [res |-> "runtime_error", x |-> x, y |-> dual_solution, rep |-> NoReport]
     ELSE [res |-> "ok", x |-> x, y |-> y,
           rep |-> [code |-> code, msg |-> msg,
                    x |-> IF x = "empty" THEN "null" ELSE "data",
                    y |-> IF y = "empty" THEN "null" ELSE "data",
                    obj |-> "NaN"]]

\* BasicBackend::ObtainAndReportSolution with solve_code = code and
\* solve_status = status.  Returns how it ended, the members solution and
\* dual_solution after it, and the arguments of HandleSolution.
ObtainAndReportSolution(code, status, isMIP, primalOK, dualOK, rpFail) ==
  LET retrieved == code < sol_INFEASIBLE
      x   == IF retrieved
             THEN (IF primalOK /\ prob.nvars > 0 THEN "filled" ELSE "empty")
             ELSE solution
      hasObj == retrieved /\ rpFail # "NumberOfObjectives" /\ prob.nobjs > 0
      y   == IF isMIP THEN dual_solution
             ELSE (IF dualOK /\ prob.ncons > 0 THEN "filled" ELSE "empty")
      msg == <<"long_name", ": ">> \o status
             \o (IF hasObj THEN <<"; objective ", "ObjectiveValue">> ELSE <<>>)
             \o <<"\n">>
  IN IF retrieved /\ rpFail = "NumberOfObjectives"
     THEN [res |-> "runtime_error", x |-> x, y |-> dual_solution, rep |-> NoReport]
     ELSE IF hasObj /\ rpFail = "ObjectiveValue"
     THEN [res |-> "runtime_error", x |-> x, y |-> dual_solution, rep |-> NoReport]
     ELSE IF rpFail = "IsMIP"
     THEN [res |-> "runtime_error", x |-> x, y |-> dual_solution, rep |-> NoReport]
     ELSE [res |-> "ok", x |-> x, y |-> y,
           rep |-> [code |-> code, msg |-> msg,
                    x |-> IF x = "empty" THEN "null" ELSE "data",
                    y |-> IF y = "empty" THEN "null" ELSE "data",
                    obj |-> "NaN"]]

\* The steps, were the interrupter given its handler after the native solve.
Steps_registerLate(n) ==
  SubSeq(<<"PrepareSolve", "DoSolve", "SetInterrupter", "WrapupSolve",
           "ObtainSolutionStatus", "ObtainAndReportSolution", "HandleSolution">>, 1, n)

\* The steps, were the status translated before the native solve.
Steps_statusFirst(n) ==
  SubSeq(<<"PrepareSolve", "SetInterrupter", "ObtainSolutionStatus", "DoSolve",
           "WrapupSolve", "ObtainAndReportSolution", "HandleSolution">>, 1, n)

\* The statements of SolveAndReport, PrepareSolve and ObtainAndReportSolution
\* in the order of the code: the first n of them were entered.
Steps(n) ==
  SubSeq(<<"PrepareSolve", "SetInterrupter", "DoSolve", "WrapupSolve",
           "ObtainSolutionStatus", "ObtainAndReportSolution", "HandleSolution">>, 1, n)

\* The record of a SolveAndReport that made the first n steps, ended as eff
\* does, read the native status nat and handed rep to the sink.
SolveCall(eff, n, nat, rep) ==
  [Call("SolveAndReport", [eff EXCEPT !.calls = Steps(n)], 0, NoStruct)
   EXCEPT !.native = nat, !.rep = rep]

\* GetCQ() with p_converter_query_object null: the assert aborts the
\* process; with NDEBUG the null pointer is dereferenced.
GetCQ_null(ndebug) ==
  IF ndebug THEN Effect("undefined", <<"null dereference">>, <<>>, <<>>, 0, 0, 0)
  ELSE Effect("abort", <<"assert(nullptr!=p_converter_query_object)">>, <<>>, <<>>, 0, 0, 0)

\* BasicBackend::SolveAndReport on a GurobiBackend.  sigint: SIGINT arrives
\* during the native solve.  st, sc: the native status and solution count
\* the solve leaves.
SolveAndReport(optFail, sigint, st, sc, cvFail, isMIP, primalOK, dualOK, rpFail) ==
  LET stopped == stop \/ sigint
      slv == DoSolve(optFail)
      nat == [status |-> st, solcount |-> sc, stopped |-> stopped, mip |-> isMIP]
      cv  == ConvertSolutionStatus(st, stopped, sc, cvFail)
      rp  == ObtainAndReportSolution(cv.code, cv.msg, isMIP, primalOK, dualOK, rpFail)
  IN /\ nsolve' = nsolve + 1
     /\ stop' = stopped
     /\ IF slv.res # "ok"
        THEN /\ last' = SolveCall(slv, 3, NoNative, NoReport)
             /\ UNCHANGED <<solve_code, solve_status, solution, dual_solution, phase, obj>>
        ELSE IF cv.res # "ok"
        THEN /\ last' = SolveCall(GRB_CALL_failed("GRBgetintattr"), 5, nat, NoReport)
             /\ UNCHANGED <<solve_code, solve_status, solution, dual_solution, phase, obj>>
        ELSE /\ solve_code' = cv.code
             /\ solve_status' = cv.msg
             /\ solution' = rp.x
             /\ dual_solution' = rp.y
             /\ IF rp.res # "ok"
                THEN /\ last' = SolveCall(RAISE("Failed to obtain attribute"), 6,
                                          nat, NoReport)
                     /\ UNCHANGED phase
                     /\ UNCHANGED obj
                ELSE IF cq = "null"
                THEN \E ndebug \in BOOLEAN :
                       /\ last' = SolveCall(GetCQ_null(ndebug), 7, nat, NoReport)
                       /\ obj' = IF ndebug THEN "undefined" ELSE "aborted"
                       /\ UNCHANGED phase
                ELSE /\ phase' = "Reported"
                     /\ last' = SolveCall(NoEffect, 7, nat, rp.rep)
                     /\ UNCHANGED obj
     /\ UNCHANGED <<impl, grbenv, grbmodel, prob>>

\* GurobiBackend::IsMIP: the native model's IS_MIP attribute; the model is a
\* MIP when it holds an integer variable.
IsMIP == prob.nint > 0

\* The outcomes of the native calls of one SolveAndReport.  An outcome that
\* the code never reads is given once: nothing after a failed call, the
\* solution count only with a status that has no case.
SolveInputs ==
  { n \in [optFail : BOOLEAN, sigint : BOOLEAN, st : GrbStatuses, sc : 0..1,
           cvFail : FailAt, isMIP : BOOLEAN, primalOK : BOOLEAN, dualOK : BOOLEAN,
           rpFail : ReportFailures] :
      /\ (n.optFail => n.cvFail = 0)
      /\ (n.optFail \/ n.cvFail = 1 => n.st = "GRB_OPTIMAL")
      /\ (n.cvFail = 2 => n.st \in GrbUncased)
      /\ (n.optFail \/ n.cvFail # 0 \/ n.st \in GrbCased => n.sc = 0)
      /\ (n.optFail \/ n.cvFail # 0 =>
            n.isMIP /\ n.primalOK /\ n.dualOK /\ n.rpFail = "none")
      /\ (n.isMIP => n.dualOK)
      /\ (n.st \in GrbCased \ {"GRB_OPTIMAL"} =>
            n.primalOK /\ n.rpFail \in {"none", "IsMIP"}) }

DoSolveAndReportOn(S) ==
  /\ obj = "alive"
  /\ impl = "GurobiBackend"
  /\ nsolve < MaxSolves
  /\ \E n \in S :
       /\ (n.cvFail = 2 => ~(stop \/ n.sigint))
       /\ (n.optFail \/ n.cvFail # 0 \/ (n.isMIP <=> IsMIP))
       /\ (prob.nvars = 0 => n.primalOK)
       /\ (prob.ncons = 0 => n.dualOK)
       /\ (prob.nobjs = 0 => n.rpFail # "ObjectiveValue")
       /\ SolveAndReport(n.optFail, n.sigint, n.st, n.sc, n.cvFail, n.isMIP,
                         n.primalOK, n.dualOK, n.rpFail)

DoSolveAndReport == DoSolveAndReportOn(SolveInputs)

\* ------------------------------------------------------------ specification
\* Spec: the life of a backend whose caller makes the calls in any order.

Construct == DoConstruct /\ UNCHANGED <<drv, rsv, clog, stats, clock, options, ocall, solverVars>>
Destroy == DoDestroy /\ UNCHANGED <<drv, rsv, clog, stats, clock, options, ocall, solverVars>>
InitProblemModificationPhase == DoInitProblemModificationPhase /\ UNCHANGED <<drv, rsv, clog, stats, clock, options, ocall, solverVars>>
FinishModification == DoFinishProblemModificationPhase /\ UNCHANGED <<drv, rsv, clog, stats, clock, options, ocall, solverVars>>
AddVariableCall == DoAddVariable /\ UNCHANGED <<drv, rsv, clog, stats, clock, options, ocall, solverVars>>
SolveAndReportCall == DoSolveAndReport /\ UNCHANGED <<drv, rsv, clog, stats, clock, options, ocall, solverVars>>
Interrupt == DoInterrupt /\ UNCHANGED <<drv, rsv, clog, stats, clock, options, ocall, solverVars>>

Next ==
  \/ Construct
  \/ Destroy
  \/ InitProblemModificationPhase
  \/ FinishModification
  \/ AddVariableCall
  \/ SolveAndReportCall
  \/ Interrupt

Spec == Init /\ [][Next]_vars

\* ========================================================================
\* Claims checked under Spec
\* ========================================================================
Translated == last.op = "SolveAndReport" /\ Len(last.eff.calls) >= 6
Reports == last.op = "SolveAndReport" /\ last.eff.res = "ok"
    /\ Len(SelectSeq(last.eff.calls, LAMBDA c : c = "HandleSolution")) = 1

C4_UncasedIsUnknownWithCode ==
  (Translated /\ last.native.status \in GrbUncased /\ ~last.native.stopped)
    => /\ solve_code = sol_FAILURE + 1
       /\ \E k \in DOMAIN solve_status : solve_status[k] = last.native.status
       /\ solve_code # sol_SOLVED

\* C4 (amended): a native status without a case is translated to Interrupted
\* when the stop flag is set, else to sol::UNCERTAIN "feasible solution"
\* when the solution count is positive, else to sol::FAILURE+1 with the
\* fixed message "unknown solution status", which does not hold the native
\* code; never to Solved.
C4_UncasedTranslation ==
  (Translated /\ last.native.status \in GrbUncased)
    => /\ solve_code # sol_SOLVED
       /\ \A k \in DOMAIN solve_status : solve_status[k] # last.native.status
       /\ IF last.native.stopped
          THEN solve_code = sol_INTERRUPTED /\ solve_status = <<"interrupted">>
          ELSE IF last.native.solcount > 0
          THEN solve_code = sol_UNCERTAIN /\ solve_status = <<"feasible solution">>
          ELSE solve_code = sol_FAILURE + 1 /\ solve_status = <<"unknown solution status">>

C4_Witness ==
  /\ Translated /\ last.native.status = "GRB_INTERRUPTED"
  /\ ~last.native.stopped /\ last.native.solcount = 0
  /\ solve_code = sol_FAILURE + 1

\* C5 (as stated): once the backend's life has ended, by its destructor or by
\* an exception leaving its constructor, every native handle that was
\* acquired has been released exactly once.
C5_HandlesReleasedOnce ==
  /\ grbenv.rel <= grbenv.acq /\ grbmodel.rel <= grbmodel.acq
  /\ (obj \in {"ctor_threw", "destroyed"}
        => grbenv.rel = grbenv.acq /\ grbmodel.rel = grbmodel.acq)

\* ========================================================================
\* SpecAdd: the elements of a problem are added to a backend, in any order
\* ========================================================================
AddObjectiveCall == DoAddObjective(Objectives) /\ UNCHANGED <<drv, rsv, clog, stats, clock, options, ocall, solverVars>>
AddAlgebraicConstraintCall ==
  DoAddAlgebraicConstraint(AlgebraicCons) /\ UNCHANGED <<drv, rsv, clog, stats, clock, options, ocall, solverVars>>
AddLinearDefiningConstraintCall ==
  DoAddLinearDefiningConstraint /\ UNCHANGED <<drv, rsv, clog, stats, clock, options, ocall, solverVars>>

NextAdd ==
  \/ Construct
  \/ AddVariableCall
  \/ AddObjectiveCall
  \/ AddAlgebraicConstraintCall
  \/ AddLinearDefiningConstraintCall

SpecAdd == Init /\ [][NextAdd]_vars

\* An objective or an algebraic constraint was refused by one of the throwing
\* handlers of BasicBackend (a quadratic constraint never reaches one).
RefusedByBasicBackend ==
  /\ last.op \in {"AddObjective", "AddAlgebraicConstraint"}
  /\ last.eff.res = "UnsupportedError"
  /\ ~(last.op = "AddAlgebraicConstraint" /\ ~last.st.nl /\ last.st.quad)

C8_DefiningConstraintRewritten ==
  last.op = "AddConstraint(LinearDefiningConstraint)"
    => LET n == Len(last.arg.lin)
       IN /\ last.eff.calls = <<"AddConstraint(LinearDefiningConstraint)",
                                "AddConstraint(LinearConstraint)">>
          /\ last.eff.lcs =
               << [c  |-> [k \in 1..(n + 1) |->
                             IF k <= n THEN 0 - last.arg.lin[k].coef ELSE 1],
                   v  |-> [k \in 1..(n + 1) |->
                             IF k <= n THEN last.arg.lin[k].var ELSE last.arg.r],
                   lb |-> "0", ub |-> "0"] >>
          /\ (last.eff.res = "UnsupportedError"
                => impl = "BasicBackend"
                   /\ last.eff.what = <<"BasicBackend::AddLinearConstraint">>)
          /\ prob.ncons = last.before.ncons + (IF last.eff.res = "ok" THEN 1 ELSE 0)

C8_Witness ==
  /\ last.op = "AddConstraint(LinearDefiningConstraint)"
  /\ impl = "MIPInstanceBackend" /\ last.eff.res = "ok"
  /\ Len(last.arg.lin) = 2
  /\ last.eff.lcs[1].c = <<-3, -2, 1>> /\ last.eff.lcs[1].v = <<0, 1, 2>>
  /\ prob.ncons = last.before.ncons + 1

\* ========================================================================
\* SpecDriver: one problem instance is fed to a backend and solved
\* ========================================================================
\* The driver opens the modification phase, feeds the instance's variables,
\* then its objectives, then its constraints (feedInstance), closes the
\* phase and solves.  An exception thrown by a call leaves the driver.

\* The driver's record after the add call just made, which fed one more
\* element of the kind counted by f.
Fed(f) ==
  drv' = IF last'.eff.res = "ok"
         THEN [drv EXCEPT ![f] = @ + 1]
         ELSE [drv EXCEPT ![f] = @ + 1, !.pc = "aborted"]

DriverInit ==
  /\ drv.pc = "off"
  /\ DoInitProblemModificationPhase
  /\ drv' = [drv EXCEPT !.pc = "vars"]
  /\ UNCHANGED <<rsv, clog, stats, clock, options, ocall, solverVars>>

\* interface.InputVariables(...)
FeedVariable ==
  /\ drv.pc = "vars"
  /\ DoAddVariable
  /\ Fed("fv")
  /\ UNCHANGED <<rsv, clog, stats, clock, options, ocall, solverVars>>

\* interface.InputObjective(...), for the next objective of the instance
FeedObjective ==
  /\ drv.pc = "objs"
  /\ DoAddObjective({o \in Objectives : o.i = drv.fo})
  /\ Fed("fo")
  /\ UNCHANGED <<rsv, clog, stats, clock, options, ocall, solverVars>>

\* interface.InputAlgebraicCon(...), for the next constraint of the instance
FeedConstraint ==
  /\ drv.pc = "cons"
  /\ DoAddAlgebraicConstraint({con \in AlgebraicCons : con.i = drv.fc})
  /\ Fed("fc")
  /\ UNCHANGED <<rsv, clog, stats, clock, options, ocall, solverVars>>

\* A defining constraint that the conversion of the instance produced.
FeedDefiningConstraint ==
  /\ drv.pc = "cons"
  /\ DoAddLinearDefiningConstraint
  /\ Fed("fc")
  /\ UNCHANGED <<rsv, clog, stats, clock, options, ocall, solverVars>>

\* The end of a loop of feedInstance.
FeedAdvance ==
  /\ drv.pc \in {"vars", "objs", "cons"}
  /\ drv' = [drv EXCEPT !.pc = CASE drv.pc = "vars" -> "objs"
                                 [] drv.pc = "objs" -> "cons"
                                 [] drv.pc = "cons" -> "finish"]
  /\ UNCHANGED <<backendVars, rsv, clog, stats, clock, options, ocall, solverVars>>

DriverFinish ==
  /\ drv.pc = "finish"
  /\ DoFinishProblemModificationPhase
  /\ drv' = [drv EXCEPT !.pc = IF last'.eff.res = "ok" THEN "solve" ELSE "aborted"]
  /\ UNCHANGED <<rsv, clog, stats, clock, options, ocall, solverVars>>

DriverSolve ==
  /\ drv.pc = "solve"
  /\ DoSolveAndReport
  /\ drv' = [drv EXCEPT !.pc = "done"]
  /\ UNCHANGED <<rsv, clog, stats, clock, options, ocall, solverVars>>

NextDriver ==
  \/ Construct
  \/ DriverInit
  \/ FeedVariable
  \/ FeedObjective
  \/ FeedConstraint
  \/ FeedDefiningConstraint
  \/ FeedAdvance
  \/ DriverFinish
  \/ DriverSolve

SpecDriver == Init /\ [][NextDriver]_vars

GurobiKinds ==
  {"LinearConstraint", "QuadraticConstraint", "MaximumConstraint", "MinimumConstraint",
   "AbsConstraint", "ConjunctionConstraint", "DisjunctionConstraint",
   "IndicatorConstraintLinLE", "ExpConstraint", "ExpAConstraint", "LogConstraint",
   "LogAConstraint", "PowConstraint", "SinConstraint", "CosConstraint", "TanConstraint"}

ConstraintKinds == {"LinearDefiningConstraint"} \cup GurobiKinds

\* ACCEPT_CONSTRAINT(kind, level) as a backend of implementation b sees it:
\* BasicBackend declares LinearDefiningConstraint NotAccepted and
\* LinearConstraint Recommended; a kind GurobiBackend has an overload for is
\* accepted by it; any other kind is left to BasicConstraintAdder.
Acceptance(b, kind) ==
  CASE kind = "LinearDefiningConstraint" -> "NotAccepted"
    [] kind = "LinearConstraint" -> "Recommended"
    [] b = "GurobiBackend" /\ kind \in GurobiKinds -> "Recommended"
    [] OTHER -> "NotAccepted"

\* The rewrite, were a defining constraint rewritten into a defining
\* constraint.
Rewrite_self(kind) ==
  IF kind = "LinearDefiningConstraint" THEN "LinearDefiningConstraint" ELSE "none"

\* The kind that the handler of a kind dispatches a rewritten constraint to:
\* AddConstraint(ldc) dispatches AddConstraint(ldc.to_linear_constraint()).
Rewrite(kind) ==
  IF kind = "LinearDefiningConstraint" THEN "LinearConstraint" ELSE "none"

\* How a kind that is not rewritten ends: in the backend's handler of the
\* kind, or in BasicConstraintAdder's when the backend has none.
Terminal(b, kind) ==
  LET eff == CASE kind = "LinearConstraint" ->
                    AddConstraint_LinearConstraint(b, LinearConstraint(<<>>, <<>>, "0", "0"), 0)
               [] b = "GurobiBackend" /\ kind \in GurobiKinds ->
                    Dispatched("AddConstraint(" \o kind \o ")", Returned(<<>>, <<>>, 0, 0, 1))
               [] OTHER -> BasicConstraintAdder_AddConstraint(kind, 0)
  IN IF eff.res = "UnsupportedError" THEN "unsupported" ELSE "accepted"

ResolveStart ==
  /\ rsv.outcome = "off"
  /\ \E kind \in ConstraintKinds :
       rsv' = [kind |-> kind, visited |-> {}, outcome |-> "pending"]
  /\ UNCHANGED <<backendVars, drv, clog, stats, clock, options, ocall, solverVars>>

\* One dispatch: a NotAccepted kind with a rewrite is passed on as the
\* rewritten kind; any other kind ends in its handler.
ResolveStep ==
  /\ rsv.outcome = "pending"
  /\ rsv' = IF Acceptance(impl, rsv.kind) = "NotAccepted" /\ Rewrite(rsv.kind) # "none"
            THEN [rsv EXCEPT !.kind = Rewrite(rsv.kind),
                             !.visited = @ \cup {rsv.kind}]
            ELSE [rsv EXCEPT !.outcome = Terminal(impl, rsv.kind)]
  /\ UNCHANGED <<backendVars, drv, clog, stats, clock, options, ocall, solverVars>>

NextResolve ==
  \/ ResolveStart
  \/ ResolveStep

SpecResolve == Init /\ [][NextResolve]_vars

\* C9: a resolution never comes to a kind it has left, so it makes fewer
\* rewrites than there are kinds; while it is not over a step is possible,
\* and it ends accepted or unsupported.
C9_RewritesAcyclic ==
  /\ rsv.kind \notin rsv.visited
  /\ Cardinality(rsv.visited) < Cardinality(ConstraintKinds)
  /\ rsv.outcome \in {"off", "pending", "accepted", "unsupported"}
  /\ (rsv.outcome = "pending" => ENABLED ResolveStep)
  /\ (rsv.outcome \in {"accepted", "unsupported"}
        => Acceptance(impl, rsv.kind) # "NotAccepted" \/ Rewrite(rsv.kind) = "none")

C9_Witness ==
  /\ rsv.visited = {"LinearDefiningConstraint"}
  /\ rsv.kind = "LinearConstraint"
  /\ rsv.outcome = "accepted"
  /\ impl = "GurobiBackend"

\* ========================================================================
\* SpecClassify: elements are classified by backends of any implementation;
\* the last two classifications are kept
\* ========================================================================
\* The kind of the handler that AddObjective or AddAlgebraicConstraint
\* dispatched an element to.
KindOf(eff) ==
  CASE eff.calls[2] \in {"AddGeneralObjective", "AddGeneralConstraint"} -> "general"
    [] eff.calls[2] \in {"AddLinearObjective", "AddConstraint(LinearConstraint)"} -> "linear"
    [] eff.calls[2] \in {"AddQuadraticObjective", "AddConstraint(QuadraticConstraint)"} ->
         "quadratic"

\* A classification: the implementation of the backend that made it, the
\* element and the kind selected.
Classification(b, elem, e, eff) ==
  [b |-> b, elem |-> elem, nl |-> e.nl, quad |-> e.quad, lin |-> e.lin,
   kind |-> KindOf(eff)]

\* An objective is classified by a backend of implementation b.
ClassifyObjective ==
  /\ \E b \in Impls, o \in Objectives :
       clog' = [prev |-> clog.cur,
                cur  |-> Classification(b, "objective", o, AddObjective(b, o, 0, 0))]
  /\ UNCHANGED <<backendVars, drv, rsv, stats, clock, options, ocall, solverVars>>

\* An algebraic constraint is classified by a backend of implementation b.
ClassifyConstraint ==
  /\ \E b \in Impls, con \in AlgebraicCons :
       /\ con.lb = "0"
       /\ clog' = [prev |-> clog.cur,
                   cur  |-> Classification(b, "constraint", con,
                                           AddAlgebraicConstraint(b, con, 0))]
  /\ UNCHANGED <<backendVars, drv, rsv, stats, clock, options, ocall, solverVars>>

NextClassify ==
  \/ ClassifyObjective
  \/ ClassifyConstraint

SpecClassify == Init /\ [][NextClassify]_vars

ObjectiveHandlers == {"AddGeneralObjective", "AddLinearObjective", "AddQuadraticObjective"}

\* C11: an AddObjective call dispatches exactly one of AddGeneralObjective,
\* AddLinearObjective and AddQuadraticObjective, and nothing else: the
\* general one with a nonlinear expression, else the quadratic one with the
\* extra-info, else the linear one.
C11_OneObjectiveHandler ==
  last.op = "AddObjective"
    => /\ Len(SelectSeq(last.eff.calls, LAMBDA c : c \in ObjectiveHandlers)) = 1
       /\ last.eff.calls =
            <<"AddObjective",
              IF last.st.nl THEN "AddGeneralObjective"
              ELSE IF last.st.quad THEN "AddQuadraticObjective"
              ELSE "AddLinearObjective">>

C11_Witness ==
  /\ last.op = "AddObjective" /\ impl = "GurobiBackend"
  /\ ~last.st.nl /\ last.st.quad /\ last.eff.res = "ok"
  /\ last.eff.calls = <<"AddObjective", "AddQuadraticObjective">>
  /\ prob.nobjs = last.before.nobjs + 1

\* ========================================================================
\* Further claims checked under Spec
\* ========================================================================
\* Step a was entered before every entry of step b in the last call.
StepBefore(a, b) ==
  \A j \in DOMAIN last.eff.calls :
     last.eff.calls[j] = b => \E i \in 1..(j - 1) : last.eff.calls[i] = a

HandleSolutionCalls ==
  Len(SelectSeq(last.eff.calls, LAMBDA c : c = "HandleSolution"))

\* C12 (as stated): in every SolveAndReport the native solve precedes the
\* status translation, which precedes the retrieval of the solution, which
\* precedes HandleSolution, and HandleSolution is invoked exactly once.
C12_OrderedAndReportedOnce ==
  last.op = "SolveAndReport"
    => /\ StepBefore("DoSolve", "ObtainSolutionStatus")
       /\ StepBefore("ObtainSolutionStatus", "ObtainAndReportSolution")
       /\ StepBefore("ObtainAndReportSolution", "HandleSolution")
       /\ HandleSolutionCalls = 1

\* C12 (amended): in every SolveAndReport the native solve precedes the
\* status translation, which precedes the retrieval of the solution, which
\* precedes HandleSolution.  HandleSolution is invoked exactly once in a
\* SolveAndReport that returns, and not at all in one that the
\* std::runtime_error of a failed native call ends.
C12_OrderedAndReportedOnReturn ==
  last.op = "SolveAndReport"
    => /\ StepBefore("DoSolve", "ObtainSolutionStatus")
       /\ StepBefore("ObtainSolutionStatus", "ObtainAndReportSolution")
       /\ StepBefore("ObtainAndReportSolution", "HandleSolution")
       /\ (last.eff.res = "ok" => HandleSolutionCalls = 1)
       /\ (last.eff.res # "ok" => last.eff.res = "runtime_error" /\ HandleSolutionCalls = 0)

C12_Witness ==
  /\ last.op = "SolveAndReport" /\ last.eff.res = "ok"
  /\ HandleSolutionCalls = 1 /\ Len(last.eff.calls) = 7
  /\ last.native.status = "GRB_OPTIMAL" /\ solution = "filled"

\* C13: a SolveAndReport gives the interrupter the backend's handler
\* (SetInterrupter) exactly once, and does so before it starts the native
\* solve: no SetInterrupter at or after DoSolve.
C13_InterrupterSetOnceBeforeSolve ==
  last.op = "SolveAndReport"
    => /\ Len(SelectSeq(last.eff.calls, LAMBDA c : c = "SetInterrupter")) = 1
       /\ \E j \in DOMAIN last.eff.calls :
            /\ last.eff.calls[j] = "DoSolve"
            /\ \E i \in 1..(j - 1) : last.eff.calls[i] = "SetInterrupter"
            /\ \A k \in j..Len(last.eff.calls) : last.eff.calls[k] # "SetInterrupter"

C13_Witness ==
  /\ last.op = "SolveAndReport" /\ nsolve = 2
  /\ last.eff.calls[2] = "SetInterrupter" /\ last.eff.calls[3] = "DoSolve"
  /\ last.eff.res = "ok"

\* ========================================================================
\* Further claims checked under SpecDriver
\* ========================================================================
\* The last call reported a solution with a solve code below sol::INFEASIBLE
\* for a model that holds an objective: the objective value was retrieved
\* (ObjectiveValue()) and written into the message.
ReportsObjective ==
  /\ Reports
  /\ last.rep.code < sol_INFEASIBLE
  /\ prob.nobjs > 0

\* C14 (as stated): when a solution is reported with a solve code below
\* sol::INFEASIBLE for a model with an objective, the objective value handed
\* to HandleSolution is the value that ObjectiveValue() returned.
C14_ObjectiveValueHandedOver ==
  ReportsObjective => last.rep.obj = "ObjectiveValue"

\* ========================================================================
\* SpecReSolve: a backend whose model is modified between solves
\* ========================================================================
\* A linear constraint is added.
AddLinearConstraintCall ==
  /\ DoAddAlgebraicConstraint({con \in AlgebraicCons : ~con.nl /\ ~con.quad /\ con.i = 0})
  /\ UNCHANGED <<drv, rsv, clog, stats, clock, options, ocall, solverVars>>

NextReSolve ==
  \/ Construct
  \/ AddVariableCall
  \/ AddLinearConstraintCall
  \/ SolveAndReportCall

SpecReSolve == Init /\ [][NextReSolve]_vars

\* C15 (as stated): whenever the backend reports the problem as MIP at
\* report time, the dual argument handed to HandleSolution is null.
C15_NoDualForMIP ==
  (Reports /\ last.native.mip) => last.rep.y = "null"

MaxClock == 5
MaxDuration == 1
Durations == 0..MaxDuration

\* GetTimeAndReset(t): the seconds from t to now; t becomes now.
GetTimeAndReset(t, now) == [seconds |-> now - t, t |-> now]

\* PrepareSolve, after SetInterrupter: stats.setup_time.
PrepareSolve(st, now) ==
  LET g == GetTimeAndReset(st.time, now)
  IN [st EXCEPT !.setup_time = g.seconds, !.time = g.t]

\* WrapupSolve, were it to leave the sample where it was.
WrapupSolve_sinceSetup(st, now) ==
  [st EXCEPT !.solution_time = now - st.time]

\* WrapupSolve: stats.solution_time.
WrapupSolve(st, now) ==
  LET g == GetTimeAndReset(st.time, now)
  IN [st EXCEPT !.solution_time = g.seconds, !.time = g.t]

\* PrintTimingInfo: the output time is a local; the three values are printed.
PrintTimingInfo(st, now) ==
  LET g == GetTimeAndReset(st.time, now)
  IN [stats |-> [st EXCEPT !.time = g.t],
      printed |-> <<st.setup_time, st.solution_time, g.seconds>>]

\* The native outcomes that decide how far a SolveAndReport gets; the
\* timing reads nothing else of them.
TimingInputs ==
  { n \in SolveInputs : n.st = "GRB_OPTIMAL" /\ ~n.sigint /\ n.sc = 0 /\ n.cvFail # 2
                        /\ n.primalOK /\ n.dualOK
                        /\ n.rpFail \in {"none", "IsMIP"} }

\* Time passes between two calls.
Tick ==
  /\ clock.now < MaxClock
  /\ clock' = [clock EXCEPT !.now = @ + 1]
  /\ UNCHANGED <<backendVars, drv, rsv, clog, stats, options, ocall, solverVars>>

\* GurobiBackend::InitProblemModificationPhase: stats.time = now().
TimedInitProblemModificationPhase ==
  /\ DoInitProblemModificationPhase
  /\ IF impl = "GurobiBackend"
     THEN /\ stats' = [stats EXCEPT !.time = clock.now]
          /\ clock' = [clock EXCEPT !.init = clock.now, !.mark = clock.now]
     ELSE UNCHANGED <<stats, clock, solverVars>>
  /\ UNCHANGED <<drv, rsv, clog, options, ocall, solverVars>>

\* SolveAndReport with its clock reads.  SetInterrupter takes d1, the native
\* solve d2, the translation of the status and the report d3; timing is
\* the value of the timing option.
TimedSolveAndReport ==
  /\ DoSolveAndReportOn(TimingInputs)
  /\ \E timing \in BOOLEAN, d1 \in Durations, d2 \in Durations, d3 \in Durations :
       LET steps    == Len(last'.eff.calls)
           begun    == clock.now + d1
           ended    == begun + d2
           reported == ended + d3
           s1 == PrepareSolve(stats, begun)
           s2 == WrapupSolve(s1, ended)
           p  == PrintTimingInfo(s2, reported)
           printing == steps = 7 /\ timing
       IN /\ reported <= MaxClock
          /\ (steps = 3 => d3 = 0)
          /\ (steps < 7 => ~timing)
          /\ stats' = IF steps = 3 THEN s1 ELSE IF printing THEN p.stats ELSE s2
          /\ clock' = [now |-> reported, init |-> clock.init,
                       mark |-> IF steps = 3 THEN begun
                                ELSE IF printing THEN reported ELSE ended,
                       from |-> clock.mark, begun |-> begun, ended |-> ended,
                       reported |-> reported,
                       printed |-> IF printing THEN p.printed ELSE <<>>]
  /\ UNCHANGED <<drv, rsv, clog, options, ocall, solverVars>>

NextTiming ==
  \/ Construct
  \/ Tick
  \/ TimedInitProblemModificationPhase
  \/ TimedSolveAndReport

SpecTiming == Init /\ [][NextTiming]_vars

\* The last call was a SolveAndReport that printed its timing block.
Timed == last.op = "SolveAndReport" /\ clock.printed # <<>>

MaxOptions == 2

\* Option names: two spellings of "ab", and "b", which comes after them.
Names == {<<"a", "b">>, <<"A", "B">>, <<"b">>}

\* internal::OptionHelper<T>::TYPE_NAME and the values of each type; the
\* first is the value an option has when it is registered.
OptionTypes == {"int", "double", "string"}
OptionValues(T) ==
  CASE T = "int" -> <<"0", "42">>
    [] T = "double" -> <<"0.0", "5.4">>
    [] T = "string" -> <<"", "abc">>

Ascii(c) ==
  CASE c = "A" -> 65 [] c = "B" -> 66 [] c = "a" -> 97 [] c = "b" -> 98

tolower(c) == CASE c = "A" -> "a" [] c = "B" -> "b" [] OTHER -> c

\* The name with every character in lower case.
Fold(name) == [i \in 1..Len(name) |-> tolower(name[i])]

\* strcmp(lhs, rhs) < 0
RECURSIVE strcmp_less(_, _)
strcmp_less(lhs, rhs) ==
  IF rhs = <<>> THEN FALSE
  ELSE IF lhs = <<>> THEN TRUE
  ELSE IF Ascii(Head(lhs)) # Ascii(Head(rhs)) THEN Ascii(Head(lhs)) < Ascii(Head(rhs))
  ELSE strcmp_less(Tail(lhs), Tail(rhs))

\* Solver::OptionNameLess: the order of the keys of options_, which takes
\* no account of case.
OptionNameLess(lhs, rhs) == strcmp_less(Fold(lhs), Fold(rhs))

\* std::map::find: the positions whose key is equivalent to name.
Found(name) ==
  { i \in 1..Len(options) : /\ ~OptionNameLess(options[i].key, name)
                            /\ ~OptionNameLess(name, options[i].key) }

\* Solver::FindOption: the option with the name, or null.
FindOption(name) ==
  IF Found(name) = {} THEN NoOption ELSE options[CHOOSE i \in Found(name) : TRUE].opt

\* Solver::GetOptionValue<T>: dynamic_cast<TypedSolverOption<T>*> is null
\* for null and for an option of another type.
GetOptionValue(name, T) ==
  LET opt == FindOption(name)
  IN IF opt = NoOption \/ opt.type # T
     THEN [res |-> "OptionError", value |-> "none"]
     ELSE [res |-> "ok", value |-> opt.value]

\* SetOptionValue, were a value of another type stored as it is.
SetOptionValue_coerce(name, T, value) ==
  LET opt == FindOption(name)
  IN IF opt = NoOption
     THEN [res |-> "OptionError", options |-> options]
     ELSE [res |-> "ok",
           options |-> [i \in 1..Len(options) |->
                          IF i \in Found(name)
                          THEN [options[i] EXCEPT !.opt.value = value]
                          ELSE options[i]]]

\* SetOptionValue, were the option looked up by the exact spelling of its
\* name.
SetOptionValue_exactName(name, T, value) ==
  LET at == { i \in 1..Len(options) : options[i].key = name }
  IN IF at = {} \/ \E i \in at : options[i].opt.type # T
     THEN [res |-> "OptionError", options |-> options]
     ELSE [res |-> "ok",
           options |-> [i \in 1..Len(options) |->
                          IF i \in at
                          THEN [options[i] EXCEPT !.opt.value = value]
                          ELSE options[i]]]

\* Solver::SetOptionValue<T>: the option's SetValue stores the value.
SetOptionValue(name, T, value) ==
  LET opt == FindOption(name)
  IN IF opt = NoOption \/ opt.type # T
     THEN [res |-> "OptionError", options |-> options]
     ELSE [res |-> "ok",
           options |-> [i \in 1..Len(options) |->
                          IF i \in Found(name)
                          THEN [options[i] EXCEPT !.opt.value = value]
                          ELSE options[i]]]

\* Solver::AddOption: options_[opt->name()] = opt.get().  operator[] gives
\* the mapped pointer of the equivalent key when there is one, else it
\* inserts the name as a new key at its place in the order.
AddOption(opt) ==
  IF Found(opt.name) # {}
  THEN [i \in 1..Len(options) |->
          IF i \in Found(opt.name) THEN [options[i] EXCEPT !.opt = opt] ELSE options[i]]
  ELSE LET below == SelectSeq(options, LAMBDA e : OptionNameLess(e.key, opt.name))
           above == SelectSeq(options, LAMBDA e : OptionNameLess(opt.name, e.key))
       IN below \o <<[key |-> opt.name, opt |-> opt]>> \o above

\* The options registered under a spelling of the name.
Registered(name) ==
  { options[i].opt : i \in { j \in 1..Len(options) : Fold(options[j].key) = Fold(name) } }

\* AddIntOption, AddDblOption, AddStrOption, AddStoredOption,
\* AddSolverOption: a new option of the type is handed to AddOption.
AddOptionCall ==
  /\ \E name \in Names, T \in OptionTypes :
       LET opt == [name |-> name, type |-> T, value |-> OptionValues(T)[1]]
       IN /\ (Registered(name) = {} => Len(options) < MaxOptions)
          /\ options' = AddOption(opt)
          /\ ocall' = [op |-> "AddOption", name |-> name, type |-> T,
                       value |-> opt.value, res |-> "ok",
                       first |-> IF Registered(name) = {} THEN NoOption
                                 ELSE CHOOSE o \in Registered(name) : TRUE]
  /\ UNCHANGED <<backendVars, drv, rsv, clog, stats, clock, solverVars>>

\* GetIntOption, GetDblOption, GetStrOption.
GetOptionCall ==
  /\ \E name \in Names, T \in OptionTypes :
       LET g == GetOptionValue(name, T)
       IN ocall' = [op |-> "GetOption", name |-> name, type |-> T,
                    value |-> g.value, res |-> g.res, first |-> NoOption]
  /\ UNCHANGED <<backendVars, drv, rsv, clog, stats, clock, options, solverVars>>

\* SetIntOption, SetDblOption, SetStrOption.
SetOptionCall ==
  /\ \E name \in Names, T \in OptionTypes :
       \E k \in 1..2 :
         LET value == OptionValues(T)[k]
             r == SetOptionValue(name, T, value)
         IN /\ options' = r.options
            /\ ocall' = [op |-> "SetOption", name |-> name, type |-> T,
                         value |-> value, res |-> r.res, first |-> NoOption]
  /\ UNCHANGED <<backendVars, drv, rsv, clog, stats, clock, solverVars>>

NextOptions ==
  \/ AddOptionCall
  \/ GetOptionCall
  \/ SetOptionCall

SpecOptions == Init /\ [][NextOptions]_vars

\* The last call read or set an option by name.
ByName == ocall.op \in {"GetOption", "SetOption"}

\* An option of the requested type is registered under a spelling of the
\* name of the last call.
Matches == \E o \in Registered(ocall.name) : o.type = ocall.type

\* C18: a get or set by name ends in OptionError exactly when no option
\* is registered under the name or the registered option is of another
\* type than the requested one, and a call that ends in OptionError leaves
\* every option as it was.
C18_TypedAccessOrOptionError ==
  /\ [](ByName => (ocall.res = "OptionError" <=> ~Matches))
  /\ [][ocall'.res = "OptionError" => options' = options]_vars

\* A set of a value of another type than the registered option's.
C18_Witness ==
  /\ ocall.op = "SetOption" /\ ocall.res = "OptionError"
  /\ \E o \in Registered(ocall.name) : o.type = "double" /\ ocall.type = "string"

\* C19: a registration under a name that is registered already, in any
\* spelling, is rejected, and the name still gives the option registered
\* first.
C19_SecondRegistrationRejected ==
  (ocall.op = "AddOption" /\ ocall.first # NoOption) =>
    /\ ocall.res = "OptionError"
    /\ FindOption(ocall.name) = ocall.first

\* C20: a set through any spelling of a registered option's name reaches
\* that option: it succeeds, the value is the one stored for the option,
\* and a get through every spelling of the name returns it.
C20_LookupIgnoresCase ==
  (ocall.op = "SetOption" /\ Matches) =>
    /\ ocall.res = "ok"
    /\ \A o \in Registered(ocall.name) : o.value = ocall.value
    /\ \A n \in Names :
         Fold(n) = Fold(ocall.name) =>
           GetOptionValue(n, ocall.type) = [res |-> "ok", value |-> ocall.value]

\* The option registered as "ab" was set to 42 through the name "AB".
C20_Witness ==
  /\ ocall.op = "SetOption" /\ ocall.res = "ok"
  /\ ocall.name = <<"A", "B">> /\ ocall.value = "42"
  /\ \E i \in 1..Len(options) :
       /\ options[i].key = <<"a", "b">> /\ options[i].opt.name = <<"a", "b">>
       /\ options[i].opt.value = "42"

\* ========================================================================
\* SpecSignal: SIGINT and the SignalHandler objects of a process
\* ========================================================================
MaxLifetimes == 2

Interruptibles == {"null", "optimizer"}

\* SignalHandler's constructor, were it to leave stop_ as it is.
SignalHandler_keepStop(s, i) ==
  [s EXCEPT !.interruptible_ = i, !.disposition = "HandleSigInt",
            !.alive = TRUE, !.lifetimes = @ + 1, !.sigints = 0, !.interrupts = 0]

\* SignalHandler::SignalHandler(s, i): interruptible_ = i; stop_ = 0;
\* std::signal(SIGINT, HandleSigInt).
SignalHandler(s, i) ==
  [s EXCEPT !.interruptible_ = i, !.stop_ = 0, !.disposition = "HandleSigInt",
            !.alive = TRUE, !.lifetimes = @ + 1, !.sigints = 0, !.interrupts = 0]

\* SignalHandler::~SignalHandler(): stop_ = 1; interruptible_ = 0.  The
\* disposition of SIGINT stays.
SignalHandler_dtor(s) ==
  [s EXCEPT !.stop_ = 1, !.interruptible_ = "null", !.alive = FALSE]

\* The write loop of HandleSigInt: the message is written whole unless a
\* write fails.
Written(s, writeOK) ==
  [s EXCEPT !.out = IF writeOK THEN @ + 1 ELSE @,
            !.wrote = IF writeOK THEN "written" ELSE "failed",
            !.sigints = @ + 1]

\* HandleSigInt, were the Interruptible interrupted before stop_ is read.
HandleSigInt_interruptFirst(s, writeOK) ==
  LET w == Written(s, writeOK)
      i == IF s.interruptible_ # "null"
           THEN [w EXCEPT !.interrupts = @ + 1, !.by = w.sigints, !.seen = s.stop_,
                          !.early = @ \/ ~s.alive]
           ELSE w
  IN IF s.stop_ # 0
     THEN [i EXCEPT !.proc = "exited_1"]
     ELSE [i EXCEPT !.stop_ = 1, !.disposition = "HandleSigInt"]

\* HandleSigInt, were a later SIGINT to set the flag again and return.
HandleSigInt_noExit(s, writeOK) ==
  LET w == Written(s, writeOK)
  IN [w EXCEPT !.stop_ = 1, !.disposition = "HandleSigInt"]

\* SignalHandler::HandleSigInt: the message, _exit(1) when stop_ is set,
\* else stop_ = 1, Interrupt() on the Interruptible if there is one, and
\* the handler installed again.
HandleSigInt(s, writeOK) ==
  LET w == Written(s, writeOK)
      f == [w EXCEPT !.stop_ = 1, !.disposition = "HandleSigInt"]
  IN IF s.stop_ # 0
     THEN [w EXCEPT !.proc = "exited_1"]
     ELSE IF s.interruptible_ # "null"
     THEN [f EXCEPT !.interrupts = @ + 1, !.by = w.sigints, !.seen = f.stop_,
                    !.early = @ \/ ~s.alive]
     ELSE f

\* SignalHandler::stop()
SignalHandler_stop == sig.stop_ # 0

\* The other variables of the model, which the signal operations leave.
notSig == <<backendVars, drv, rsv, clog, stats, clock, options, ocall, pool, cq, element, ilog>>

\* A SignalHandler is constructed on the stack of a solve (ilogcp.cpp 726,
\* jacop.cc 482): one is alive at a time.
ConstructSignalHandler ==
  /\ sig.proc = "running" /\ ~sig.alive /\ sig.lifetimes < MaxLifetimes
  /\ \E i \in Interruptibles : sig' = SignalHandler(sig, i)
  /\ UNCHANGED notSig

DestroySignalHandler ==
  /\ sig.proc = "running" /\ sig.alive
  /\ sig' = SignalHandler_dtor(sig)
  /\ UNCHANGED notSig

\* A SIGINT is delivered: under the default disposition it ends the
\* process, else HandleSigInt runs.
DeliverSIGINT ==
  /\ sig.proc = "running"
  /\ IF sig.disposition = "SIG_DFL"
     THEN sig' = [sig EXCEPT !.proc = "killed", !.sigints = @ + 1]
     ELSE \E writeOK \in BOOLEAN : sig' = HandleSigInt(sig, writeOK)
  /\ UNCHANGED notSig

NextSignal ==
  \/ ConstructSignalHandler
  \/ DestroySignalHandler
  \/ DeliverSIGINT

SpecSignal == Init /\ [][NextSignal]_vars

\* C21: while a SignalHandler is alive, stop() is false until the first
\* SIGINT of its life and true from it on, and the first SIGINT leaves the
\* process running.
C21_StopFollowsFirstSigint ==
  sig.alive =>
    /\ (sig.sigints = 0 => ~SignalHandler_stop /\ sig.proc = "running")
    /\ (sig.sigints >= 1 => SignalHandler_stop)
    /\ (sig.sigints = 1 => sig.proc = "running")

\* The first SIGINT in the life of the second SignalHandler of the process.
C21_Witness ==
  /\ sig.alive /\ sig.lifetimes = 2 /\ sig.sigints = 1
  /\ SignalHandler_stop /\ sig.proc = "running"

\* C22: the second SIGINT in the life of a SignalHandler ends the process
\* with exit code 1, the break message written a second time before.
C22_SecondSigintExitsAfterMessage ==
  (sig.alive /\ sig.sigints = 2) => sig.proc = "exited_1" /\ sig.wrote = "written"

\* C22 amended: the second SIGINT in the life of a SignalHandler ends the
\* process with exit code 1 after the write of the break message, which
\* is on the output unless the write failed.
C22_SecondSigintExits ==
  (sig.alive /\ sig.sigints = 2) =>
    /\ sig.proc = "exited_1"
    /\ sig.wrote \in {"written", "failed"}
    /\ (sig.wrote = "written" => sig.out >= 1)

\* Two SIGINTs in one life, both messages written.
C22_Witness ==
  /\ sig.alive /\ sig.sigints = 2 /\ sig.proc = "exited_1"
  /\ sig.wrote = "written" /\ sig.out = 2

\* C30: Interrupt() is invoked at most once in the life of a SignalHandler,
\* by its first SIGINT, with the stop flag set, and never without a live
\* SignalHandler.
C30_InterruptOnceByFirstSigint ==
  /\ sig.interrupts <= 1
  /\ (sig.interrupts = 1 => sig.by = 1)
  /\ sig.seen # 0
  /\ ~sig.early

\* The Interruptible was interrupted, a second SIGINT ended the process.
C30_Witness ==
  /\ sig.interrupts = 1 /\ sig.sigints = 2 /\ sig.proc = "exited_1"
  /\ sig.interruptible_ = "optimizer"

\* ========================================================================
\* Claims on the opening of a backend and on the solve code, checked under
\* SpecDriver; on the primal solution of a second solve, under Spec
\* ========================================================================
\* The construction of a GurobiBackend was attempted and a native handle
\* was not acquired.
OpenFailed ==
  impl = "GurobiBackend" /\ obj # "none" /\ (grbenv.acq = 0 \/ grbmodel.acq = 0)

\* C23: when GRBloadenv or GRBnewmodel fails, the construction of the
\* backend raises the error, and nothing is added, solved or reported on
\* that backend: the only call is the construction.
C23_OpenFailureIsRaisedAtConstruction ==
  OpenFailed =>
    /\ obj = "ctor_threw"
    /\ last.op = "Construct" /\ last.eff.res = "runtime_error"
    /\ prob = NoProb /\ nsolve = 0 /\ phase = "Created"
    /\ solution = "empty" /\ dual_solution = "empty"

\* GRBnewmodel failed after GRBloadenv gave an environment.
C23_Witness ==
  /\ OpenFailed /\ obj = "ctor_threw"
  /\ grbenv.acq = 1 /\ grbmodel.acq = 0

\* C26: the solve code by native status: OPTIMAL gives SOLVED, INFEASIBLE
\* INFEASIBLE, UNBOUNDED UNBOUNDED, INF_OR_UNBD INFEASIBLE + 1, NUMERIC
\* FAILURE; any other status gives INTERRUPTED when the interrupter reports
\* stop, else UNCERTAIN when the solution count is positive, else
\* FAILURE + 1; SOLVED is given for OPTIMAL and for nothing else.
C26_CodeByNativeStatus ==
  Translated =>
    /\ solve_code =
         CASE last.native.status = "GRB_OPTIMAL" -> sol_SOLVED
           [] last.native.status = "GRB_INFEASIBLE" -> sol_INFEASIBLE
           [] last.native.status = "GRB_UNBOUNDED" -> sol_UNBOUNDED
           [] last.native.status = "GRB_INF_OR_UNBD" -> sol_INFEASIBLE + 1
           [] last.native.status = "GRB_NUMERIC" -> sol_FAILURE
           [] OTHER -> IF last.native.stopped THEN sol_INTERRUPTED
                       ELSE IF last.native.solcount > 0 THEN sol_UNCERTAIN
                       ELSE sol_FAILURE + 1
    /\ (solve_code = sol_SOLVED <=> last.native.status = "GRB_OPTIMAL")

\* A status without a case, no stop, a solution found: UNCERTAIN.
C26_Witness ==
  /\ Translated /\ last.native.status = "GRB_TIME_LIMIT"
  /\ ~last.native.stopped /\ last.native.solcount = 1
  /\ solve_code = sol_UNCERTAIN

\* C28: whenever the solve code is at or above sol::INFEASIBLE, the primal
\* argument of HandleSolution is null, on a first solve of a backend and on
\* one that follows a solve that gave a primal solution.
C28_NoPrimalWithoutSolution ==
  (Reports /\ last.rep.code >= sol_INFEASIBLE) => last.rep.x = "null"

\* ========================================================================
\* SpecPool: the iteration over the solution pool of a GurobiBackend
\* ========================================================================
MaxPool == 2

\* assert(cond ...): with assertions compiled in, a false condition aborts
\* the process; with NDEBUG the statement is empty.
Asserted(p, cond, ndebug) ==
  IF cond \/ ndebug THEN p ELSE [p EXCEPT !.proc = "aborted"]

\* GurobiBackend::StartPoolSolutions
StartPoolSolutions(p) ==
  [p EXCEPT !.iPoolSolution = -1]

\* SelectNextPoolSolution, were the index compared before it is advanced.
SelectNextPoolSolution_late(p, failAt) ==
  LET i == p.iPoolSolution + 1
  IN IF failAt = 1
     THEN [p EXCEPT !.iPoolSolution = i, !.ret = "raised"]
     ELSE IF p.iPoolSolution < p.solcount
     THEN IF failAt = 2
          THEN [p EXCEPT !.iPoolSolution = i, !.ret = "raised"]
          ELSE [p EXCEPT !.iPoolSolution = i, !.solnumber = i, !.ret = "true"]
     ELSE [p EXCEPT !.iPoolSolution = i, !.ret = "false"]

\* GurobiBackend::SelectNextPoolSolution: ++iPoolSolution; the solution
\* count is read (failAt = 1: GrbGetIntAttr raises) and, below it, the
\* solution number is set (failAt = 2: GrbSetIntParam raises).
SelectNextPoolSolution(p, failAt) ==
  LET i == p.iPoolSolution + 1
  IN IF failAt = 1
     THEN [p EXCEPT !.iPoolSolution = i, !.ret = "raised"]
     ELSE IF i < p.solcount
     THEN IF failAt = 2
          THEN [p EXCEPT !.iPoolSolution = i, !.ret = "raised"]
          ELSE [p EXCEPT !.iPoolSolution = i, !.solnumber = i, !.ret = "true"]
     ELSE [p EXCEPT !.iPoolSolution = i, !.ret = "false"]

\* GurobiBackend::EndPoolSolutions
EndPoolSolutions(p) ==
  [p EXCEPT !.iPoolSolution = -2]

notPool == <<backendVars, drv, rsv, clog, stats, clock, options, ocall, sig, cq, element, ilog>>

\* A native solve leaves n solutions in the pool.
PoolSolved ==
  /\ pool.proc = "running" /\ ~pool.open
  /\ \E n \in 0..MaxPool :
       /\ n # pool.solcount
       /\ pool' = [pool EXCEPT !.solcount = n, !.op = "Solve", !.ret = "none"]
  /\ UNCHANGED notPool

StartPoolSolutionsCall ==
  /\ pool.proc = "running"
  /\ \E ndebug \in BOOLEAN :
       LET cond == pool.iPoolSolution = -2
           a == Asserted(pool, cond, ndebug)
       IN /\ (cond => ~ndebug)
          /\ pool' = IF a.proc = "aborted"
                     THEN [a EXCEPT !.op = "StartPoolSolutions", !.legal = FALSE]
                     ELSE [StartPoolSolutions(a) EXCEPT
                             !.op = "StartPoolSolutions", !.ret = "none", !.k = 0,
                             !.open = TRUE, !.legal = @ /\ ~pool.open]
  /\ UNCHANGED notPool

SelectNextPoolSolutionCall ==
  /\ pool.proc = "running"
  /\ pool.k < MaxPool + 2
  /\ \E ndebug \in BOOLEAN, failAt \in FailAt :
       LET cond == pool.iPoolSolution >= -1
           a == Asserted(pool, cond, ndebug)
       IN /\ (cond => ~ndebug)
          /\ (failAt = 2 => pool.iPoolSolution + 1 < pool.solcount)
          /\ pool' = IF a.proc = "aborted"
                     THEN [a EXCEPT !.op = "SelectNextPoolSolution", !.legal = FALSE]
                     ELSE [SelectNextPoolSolution(a, failAt) EXCEPT
                             !.op = "SelectNextPoolSolution", !.k = @ + 1,
                             !.legal = @ /\ pool.open]
  /\ UNCHANGED notPool

EndPoolSolutionsCall ==
  /\ pool.proc = "running"
  /\ \E ndebug \in BOOLEAN :
       LET cond == pool.iPoolSolution >= -1
           a == Asserted(pool, cond, ndebug)
       IN /\ (cond => ~ndebug)
          /\ pool' = IF a.proc = "aborted"
                     THEN [a EXCEPT !.op = "EndPoolSolutions", !.legal = FALSE]
                     ELSE [EndPoolSolutions(a) EXCEPT
                             !.op = "EndPoolSolutions", !.ret = "none",
                             !.legal = @ /\ pool.open, !.open = FALSE]
  /\ UNCHANGED notPool

NextPool ==
  \/ PoolSolved
  \/ StartPoolSolutionsCall
  \/ SelectNextPoolSolutionCall
  \/ EndPoolSolutionsCall

SpecPool == Init /\ [][NextPool]_vars

\* C27: in an iteration opened by StartPoolSolutions, the k-th
\* SelectNextPoolSolution returns true exactly when k is at most the
\* solution count, and then the native solution number is k - 1; the
\* asserts admit StartPoolSolutions exactly when no iteration is open and
\* the other two exactly when one is.
C27_PoolVisitedInOrder ==
  /\ (pool.legal /\ pool.op = "SelectNextPoolSolution" /\ pool.ret \in {"true", "false"})
       => /\ pool.k >= 1
          /\ (pool.ret = "true" <=> pool.k <= pool.solcount)
          /\ (pool.ret = "true" => pool.solnumber = pool.k - 1)
  /\ (pool.legal => (pool.open <=> pool.iPoolSolution >= -1))
  /\ (pool.legal => (~pool.open <=> pool.iPoolSolution = -2))
  /\ (pool.proc = "aborted" => ~pool.legal)

\* The pool has two solutions; the second call selected the second one and
\* the third returned false.
C27_Witness ==
  /\ pool.legal /\ pool.op = "SelectNextPoolSolution" /\ pool.ret = "false"
  /\ pool.k = 3 /\ pool.solcount = 2 /\ pool.solnumber = 1

\* ========================================================================
\* SpecQuery: a backend before and after its converter provides the query
\* object
\* ========================================================================
\* ConverterQuery *p_converter_query_object = nullptr
InitQuery ==
  /\ InitButQuery
  /\ cq = "null"

\* BasicBackend::ProvideConverterQueryObject(pCQ)
ProvideConverterQueryObject ==
  /\ obj = "alive"
  /\ \E pCQ \in {"null", "query"} : pCQ # cq /\ cq' = pCQ
  /\ UNCHANGED <<backendVars, drv, rsv, clog, stats, clock, options, ocall, sig, pool, element, ilog>>

NextQuery ==
  \/ Construct
  \/ ProvideConverterQueryObject
  \/ AddVariableCall
  \/ SolveAndReportCall

SpecQuery == InitQuery /\ [][NextQuery]_vars

\* C25: a SolveAndReport made while the backend has no query object does
\* not start the native solve.
C25_NoSolveWithoutQueryObject ==
  (last.op = "SolveAndReport" /\ cq = "null") =>
    /\ ~(\E i \in 1..Len(last.eff.calls) : last.eff.calls[i] = "DoSolve")
    /\ nsolve = 0

\* ========================================================================
\* SpecElement: objectives and constraints of a model are added, and looked
\* at again after the call
\* ========================================================================
AddObjectiveOf ==
  /\ obj = "alive"
  /\ Size(prob) < MaxElems
  /\ \E o \in Objectives, failAt \in 0..1 :
       /\ DoAdd("AddObjective", AddObjective(impl, o, prob.nobjs, failAt), o.i,
                [nl |-> o.nl, quad |-> o.quad])
       /\ element' = [op |-> "AddObjective", before |-> Objective(o),
                   after |-> AddElement(Objective(o)).el]
  /\ UNCHANGED <<drv, rsv, clog, stats, clock, options, ocall, sig, pool, cq, ilog>>

AddAlgebraicConstraintOf ==
  /\ obj = "alive"
  /\ Size(prob) < MaxElems
  /\ \E con \in AlgebraicCons, failAt \in FailAt :
       /\ DoAdd("AddAlgebraicConstraint", AddAlgebraicConstraint(impl, con, failAt), con.i,
                [nl |-> con.nl, quad |-> con.quad])
       /\ element' = [op |-> "AddAlgebraicConstraint", before |-> AlgebraicCon(con),
                   after |-> AddElement(AlgebraicCon(con)).el]
  /\ UNCHANGED <<drv, rsv, clog, stats, clock, options, ocall, sig, pool, cq, ilog>>

NextElement ==
  \/ Construct
  \/ AddObjectiveOf
  \/ AddAlgebraicConstraintOf

SpecElement == Init /\ [][NextElement]_vars

\* C24: after AddObjective or AddAlgebraicConstraint the element has the
\* linear part, the quadratic terms, the bounds and the nonlinear expression
\* it had before the call, whichever add-method was dispatched and whether
\* the call returned or raised an error.
C24_AddOnlyReadsElement ==
  element.op \in {"AddObjective", "AddAlgebraicConstraint"} =>
    /\ last.op = element.op
    /\ element.after = element.before

\* A quadratic constraint whose add raised an error in the backend.
C24_Witness ==
  /\ element.op = "AddAlgebraicConstraint"
  /\ ~element.before.extra_info.null
  /\ last.eff.res = "runtime_error"
  /\ element.after.extra_info.qt_ = "qt"

\* ========================================================================
\* SpecIlog: an IlogCPSolver reads a problem and parses its options
\* ========================================================================
MaxArgs == 2

\* The options of a command line: name and value.
OptionArgs ==
  { [name |-> "optimizer", value |-> v] : v \in {"auto", "cp", "cplex", "gecode"} }
  \cup { [name |-> "usenumberof", value |-> v] : v \in {"0", "2"} }
  \cup { [name |-> "debugexpr", value |-> "1"] }
  \cup { [name |-> "workers", value |-> v] : v \in {"2", "x"} }
  \cup { [name |-> "mipdisplay", value |-> "1"] }

Argvs == UNION { [1..n -> OptionArgs] : n \in 0..MaxArgs }

\* The features of a problem that CreateOptimizer looks at.
IlogProblems ==
  [num_nonlinear_objs : 0..1, num_nonlinear_cons : 0..1, num_logical_cons : 0..1]

\* What a step of ParseOptions did, in the order of the steps.
Event(ev, arg) == [ev |-> ev, arg |-> arg]
Logged(s, ev, arg) == [s EXCEPT !.trace = Append(@, Event(ev, arg))]

\* ReportError(...): has_errors_ = true, and the message goes to the handler.
ReportError(s, msg) == Logged([s EXCEPT !.has_errors_ = TRUE], "ReportError", msg)

\* SetOptimizer, were it to store the type in both passes.
SetOptimizer_always(s, name, value) ==
  IF value \notin {"auto", "cp", "cplex"}
  THEN ReportError(s, "Invalid value " \o value \o " for option " \o name)
  ELSE LET opt == CASE value = "auto" -> "AUTO" [] value = "cp" -> "CP"
                    [] value = "cplex" -> "CPLEX"
       IN Logged([s EXCEPT !.options_.OPTIMIZER = opt], "options_", <<"OPTIMIZER", opt>>)

\* IlogCPSolver::SetOptimizer(name, value)
SetOptimizer(s, name, value) ==
  IF value \notin {"auto", "cp", "cplex"}
  THEN ReportError(s, "Invalid value " \o value \o " for option " \o name)
  ELSE LET opt == CASE value = "auto" -> "AUTO" [] value = "cp" -> "CP"
                    [] value = "cplex" -> "CPLEX"
       IN IF ~s.gotopttype_
          THEN Logged([s EXCEPT !.options_.OPTIMIZER = opt], "options_", <<"OPTIMIZER", opt>>)
          ELSE s

\* IlogCPSolver::SetBoolOption(name, value, opt)
SetBoolOption(s, name, value, opt) ==
  IF ~s.gotopttype_ THEN s
  ELSE IF value \notin {"0", "1"}
       THEN ReportError(s, "Invalid value " \o value \o " for option " \o name)
       ELSE Logged([s EXCEPT !.options_[opt] = IF value = "1" THEN 1 ELSE 0],
                   "options_", <<opt, value>>)

\* IlogCPSolver::SetCPOption(name, value, info) for an option without named
\* values: an integer value goes to the CP optimizer's setParameter.
SetCPOption(s, name, value) ==
  IF ~s.gotopttype_ THEN s
  ELSE IF s.optimizer_.kind # "CP"
       THEN ReportError(s, "Invalid option " \o name \o " for CPLEX optimizer")
       ELSE IF value \in {"2"}
            THEN Logged([s EXCEPT !.optimizer_.params = @ \cup {name}], "setParameter", name)
            ELSE ReportError(s, "Invalid value " \o value \o " for option " \o name)

\* IlogCPSolver::SetCPLEXIntOption(name, value, param), CPXsetintparam
\* taking the value.
SetCPLEXIntOption(s, name, value) ==
  IF ~s.gotopttype_ THEN s
  ELSE IF s.optimizer_.kind # "CPLEX"
       THEN ReportError(s, "Invalid option " \o name \o " for CP optimizer")
       ELSE Logged([s EXCEPT !.optimizer_.params = @ \cup {name}], "setParameter", name)

\* The setter registered for the option.
SetOption(s, a) ==
  CASE a.name = "optimizer" -> SetOptimizer(s, a.name, a.value)
    [] a.name = "usenumberof" -> SetBoolOption(s, a.name, a.value, "USENUMBEROF")
    [] a.name = "debugexpr" -> SetBoolOption(s, a.name, a.value, "DEBUGEXPR")
    [] a.name = "workers" -> SetCPOption(s, a.name, a.value)
    [] a.name = "mipdisplay" -> SetCPLEXIntOption(s, a.name, a.value)

\* Solver<IlogCPSolver>::ParseOptions(argv, ...): a parsing pass.  The
\* options are handed to their setters in the order of the command line; the
\* pass returns true if there were no errors and false otherwise.
RECURSIVE ParseArgs(_, _)
ParseArgs(s, argv) ==
  IF argv = <<>> THEN s ELSE ParseArgs(SetOption(s, Head(argv)), Tail(argv))

Solver_ParseOptions(s, argv, pass) ==
  ParseArgs(Logged([s EXCEPT !.has_errors_ = FALSE], "pass", pass), argv)

\* AUTO resolves to CP for a problem with a nonlinear objective, a nonlinear
\* constraint or a logical constraint, and to CPLEX for any other.
Resolved(opt, p) ==
  IF opt = "AUTO"
  THEN IF p.num_nonlinear_objs + p.num_nonlinear_cons + p.num_logical_cons # 0
       THEN "CP" ELSE "CPLEX"
  ELSE opt

\* IlogCPSolver::CreateOptimizer(p): opt is a reference to
\* options_[OPTIMIZER], which gets the resolved type.
CreateOptimizer(s, p) ==
  LET opt == Resolved(s.options_.OPTIMIZER, p)
  IN Logged([s EXCEPT !.options_.OPTIMIZER = opt,
                      !.optimizer_ = [kind |-> opt, params |-> {}]],
            "CreateOptimizer", opt)

\* IlogCPSolver::ParseOptions(argv)
ParseOptions(s, argv) ==
  LET s1 == Solver_ParseOptions([s EXCEPT !.gotopttype_ = FALSE], argv, 1)
  IN IF s1.has_errors_ THEN [s1 EXCEPT !.ret = "false"]
     ELSE LET s2 == CreateOptimizer(s1, s1.p)
              s3 == Solver_ParseOptions([s2 EXCEPT !.gotopttype_ = TRUE], argv, 2)
          IN IF s3.has_errors_ THEN [s3 EXCEPT !.ret = "false"]
             ELSE [s3 EXCEPT !.debug_ = (s3.options_.DEBUGEXPR # 0), !.ret = "true"]

notIlog == <<backendVars, drv, rsv, clog, stats, clock, options, ocall, sig, pool, cq, element>>

\* IlogCPSolver::IlogCPSolver()
IlogCPSolver ==
  /\ ~ilog.alive
  /\ ilog' = [NoIlog EXCEPT !.alive = TRUE]
  /\ UNCHANGED notIlog

\* Run: ReadProblem(argv) gives the solver its problem.
ReadProblem ==
  /\ ilog.alive /\ ~ilog.read
  /\ \E p \in IlogProblems : ilog' = [ilog EXCEPT !.p = p, !.read = TRUE]
  /\ UNCHANGED notIlog

\* Run: ParseOptions(argv), once the problem is read.
ParseOptionsCall ==
  /\ ilog.alive /\ ilog.read /\ ilog.ret = "none"
  /\ \E argv \in Argvs :
       ilog' = ParseOptions([ilog EXCEPT !.argv = argv, !.trace = <<>>], argv)
  /\ UNCHANGED notIlog

NextIlog ==
  \/ IlogCPSolver
  \/ ReadProblem
  \/ ParseOptionsCall

SpecIlog == Init /\ [][NextIlog]_vars

\* The positions of the events of one kind in the trace of the last
\* ParseOptions.
At(ev) == { i \in DOMAIN ilog.trace : ilog.trace[i].ev = ev }
Pass2 == { i \in At("pass") : ilog.trace[i].arg = 2 }

\* The valid values of the optimizer option on the command line.
RECURSIVE OptimizerArgs(_)
OptimizerArgs(argv) ==
  IF argv = <<>> THEN <<>>
  ELSE (IF Head(argv).name = "optimizer" /\ Head(argv).value \in {"auto", "cp", "cplex"}
        THEN <<Head(argv).value>> ELSE <<>>) \o OptimizerArgs(Tail(argv))

\* The type the first pass leaves: the last optimizer option of the command
\* line, AUTO without one.
TypeAfterFirstPass ==
  LET vs == OptimizerArgs(ilog.argv)
  IN IF vs = <<>> THEN "AUTO"
     ELSE CASE vs[Len(vs)] = "auto" -> "AUTO" [] vs[Len(vs)] = "cp" -> "CP"
            [] vs[Len(vs)] = "cplex" -> "CPLEX"

FirstPassFailed ==
  \E a \in 1..Len(ilog.argv) :
    ilog.argv[a].name = "optimizer" /\ ilog.argv[a].value \notin {"auto", "cp", "cplex"}

\* One optimizer is created, after the first pass and right before the
\* second, of the type the first pass left; the options of the second pass
\* leave the type alone, and no boolean or optimizer-specific option has
\* acted before the second pass.
CreatedOnceBetweenPasses ==
  /\ Cardinality(At("CreateOptimizer")) = 1
  /\ \A i \in At("CreateOptimizer") :
       /\ ilog.trace[i].arg = Resolved(TypeAfterFirstPass, ilog.p)
       /\ ilog.optimizer_.kind = ilog.trace[i].arg
       /\ ilog.options_.OPTIMIZER = ilog.trace[i].arg
       /\ Pass2 = {i + 1}
       /\ \A j \in At("options_") :
            IF ilog.trace[j].arg[1] = "OPTIMIZER" THEN j < i ELSE j > i + 1
       /\ \A j \in At("setParameter") : j > i + 1

\* C29 as stated: every ParseOptions creates the optimizer once, between
\* its two passes, from the type of the first pass; boolean and
\* optimizer-specific options act in the second pass only, and the second
\* pass does not change the type.
C29_OptimizerCreatedOnceBetweenPasses ==
  ilog.ret # "none" => CreatedOnceBetweenPasses

\* C29: a ParseOptions whose first pass reports no error creates the
\* optimizer once, between its two passes, from the type of the first pass
\* (AUTO resolved by the problem); boolean and optimizer-specific options
\* act in the second pass only, and the second pass does not change the
\* type.  A ParseOptions whose first pass reports an error returns false
\* without a second pass and without an optimizer.
C29_OptimizerCreatedOnceAfterFirstPass ==
  ilog.ret # "none" =>
    IF FirstPassFailed
    THEN /\ ilog.ret = "false"
         /\ At("CreateOptimizer") = {}
         /\ Pass2 = {}
         /\ ilog.optimizer_ = NoOptimizer
         /\ At("setParameter") = {}
         /\ \A j \in At("options_") : ilog.trace[j].arg[1] = "OPTIMIZER"
    ELSE CreatedOnceBetweenPasses

\* AUTO given in both passes, with a boolean option and an option of the
\* optimizer the problem called for.
C29_Witness ==
  /\ ilog.ret = "true"
  /\ ilog.argv = <<[name |-> "optimizer", value |-> "auto"],
                   [name |-> "usenumberof", value |-> "0"]>>
  /\ ilog.p.num_logical_cons = 1
  /\ ilog.optimizer_.kind = "CP"
  /\ ilog.options_.USENUMBEROF = 0

====
